---- MODULE Spec2Model ----
(***************************************************************************)
(* jetIDE file tree: the zustand store (stores/fileTreeStore), the tree     *)
(* service with its cache (services/fileTreeService), the IPC wrapper with  *)
(* its retry loop (services/fileOperationService) and the useFileTree hook. *)
(*                                                                          *)
(* Representation.  An absolute path "/p/d" is the sequence of its segments *)
(* <<"p","d">>; the empty string "" is <<>>.  path.split('/') of such a     *)
(* path has Len(path)+1 parts, path.split('/').filter(Boolean) has          *)
(* Len(path).  An optional field that is undefined holds the sentinel of    *)
(* its type (NoId, UndefPath, "undefined", -1); children: undefined is      *)
(* hasChildren = FALSE.  Arrays are sequences.                              *)
(***************************************************************************)
EXTENDS Integers, Sequences, FiniteSets, TLC

VARIABLES
    nodes,          \* FileTreeState.nodes: id -> FileTreeNode
    rootPaths,      \* FileTreeState.rootPaths
    selectedNodes,  \* FileTreeState.selectedNodes
    expandedNodes,  \* FileTreeState.expandedNodes
    loadingNodes,   \* FileTreeState.loadingNodes
    searchQuery,    \* FileTreeState.searchQuery
    filteredNodes,  \* FileTreeState.filteredNodes
    config,         \* FileTreeStore.config (sortBy, sortOrder, showHiddenFiles)
    cache,          \* FileTreeService.cache: path -> FileTreeNode[]
    cacheExpiry,    \* FileTreeService.cacheExpiry: path -> expiry time
    now,            \* Date.now()
    fs,             \* the file system behind the IPC gateway: the paths that exist
    notifications,  \* what notificationService was asked to show
    tasks,          \* the hook's async calls in flight, each at an await
    steps,          \* number of operations started so far
    last            \* the operation applied by the last step

storeVars == <<nodes, rootPaths, selectedNodes, expandedNodes, loadingNodes,
               searchQuery, filteredNodes, config>>
serviceVars == <<cache, cacheExpiry, now, fs, notifications>>
vars == <<nodes, rootPaths, selectedNodes, expandedNodes, loadingNodes,
          searchQuery, filteredNodes, config,
          cache, cacheExpiry, now, fs, notifications, tasks, steps, last>>

----------------------------------------------------------------------------
\* Bounds

\* operations started in one behaviour of the store specification
MaxSteps == 3
\* length of the sibling lists the sort specification starts from
MaxSiblings == 3
\* hook calls and watch events started in one behaviour of the hook specification
MaxCalls == 3
\* hook calls in flight at the same time
MaxTasks == 2
MaxBatch == 2
MaxBatches == 1
\* operations in one behaviour of the cache specification
MaxCacheSteps == 4

----------------------------------------------------------------------------
\* Paths and ids

NoId == <<>>
UndefPath == <<"undefined">>

P == <<"p">>
PD == <<"p", "d">>
PF == <<"p", "f">>
PG == <<"p", "g">>
PDF == <<"p", "d", "f">>
AB == <<"a", "b">>
ABF == <<"a", "b", "f">>

\* names the gateway reports as directories
DirNames == {"p", "d", "a", "b"}

Last(s) == s[Len(s)]
Front(s) == SubSeq(s, 1, Len(s) - 1)
Contains(s, x) == \E i \in 1..Len(s) : s[i] = x
Filter(s, x) == SelectSeq(s, LAMBDA y : y # x)
Range(s) == {s[i] : i \in 1..Len(s)}

\* btoa(encodeURIComponent(path)) with + / = removed: a string that is no path
\* (it holds no '/'), the empty string for the empty path.  The names of the
\* segment paths hold no '~', the one character whose base64 image can be a
\* removed '+'; on them the id determines the path (generateNodeIdString is
\* the function on characters).
generateNodeId(path) == IF path = <<>> THEN NoId ELSE <<"b64">> \o path

----------------------------------------------------------------------------
\* Strings.  Names and queries are strings; where the code looks into a string
\* (trim, toLowerCase, includes, a regular expression) the string is taken as
\* the sequence of its characters.

Repeat(c, n) == [i \in 1..n |-> c]

\* the characters of the strings of the model
Chars(s) ==
    CASE s = "" -> <<>>
      [] s = "con" -> <<"c", "o", "n">>
      [] s = ".h" -> <<".", "h">>
      [] s = "file2" -> <<"f", "i", "l", "e", "2">>
      [] s = "file10" -> <<"f", "i", "l", "e", "1", "0">>
      [] OTHER -> <<s>>                      \* a string of one character

UpperCase == <<"A", "B", "C", "D", "E", "F", "G", "H", "I", "J", "K", "L", "M",
               "N", "O", "P", "Q", "R", "S", "T", "U", "V", "W", "X", "Y", "Z">>
LowerCase == <<"a", "b", "c", "d", "e", "f", "g", "h", "i", "j", "k", "l", "m",
               "n", "o", "p", "q", "r", "s", "t", "u", "v", "w", "x", "y", "z">>
WhiteSpace == {" ", "\t", "\n"}

\* String.prototype.toLowerCase
toLowerCase(chars) ==
    [i \in 1..Len(chars) |->
        IF \E k \in 1..Len(UpperCase) : UpperCase[k] = chars[i]
        THEN LowerCase[CHOOSE k \in 1..Len(UpperCase) : UpperCase[k] = chars[i]]
        ELSE chars[i]]

\* String.prototype.includes
includes(chars, part) ==
    \E i \in 0..(Len(chars) - Len(part)) : SubSeq(chars, i + 1, i + Len(part)) = part

\* String.prototype.trim
RECURSIVE trimStart(_)
trimStart(chars) ==
    IF chars # <<>> /\ Head(chars) \in WhiteSpace THEN trimStart(Tail(chars)) ELSE chars
RECURSIVE trimEnd(_)
trimEnd(chars) ==
    IF chars # <<>> /\ chars[Len(chars)] \in WhiteSpace
    THEN trimEnd(SubSeq(chars, 1, Len(chars) - 1))
    ELSE chars
trim(chars) == trimEnd(trimStart(chars))

----------------------------------------------------------------------------
\* FileTreeNode values

UndefNode ==
    [id |-> NoId, name |-> "undefined", path |-> UndefPath, type |-> "undefined",
     size |-> -1, lastModified |-> -1, depth |-> -1, parent |-> NoId,
     children |-> <<>>, hasChildren |-> FALSE,
     isExpanded |-> "undefined", isLoading |-> "undefined"]

\* { ...base, ...updates }: updates is a record of the fields it sets
Merge(base, updates) ==
    [f \in DOMAIN base |-> IF f \in DOMAIN updates THEN updates[f] ELSE base[f]]

\* nodes[id], or undefined
Lookup(m, id) == IF id \in DOMAIN m THEN m[id] ELSE UndefNode
Has(m, id) == id \in DOMAIN m

\* the store's state as one value, so that handlers can chain store calls
Store ==
    [nodes |-> nodes, rootPaths |-> rootPaths, selectedNodes |-> selectedNodes,
     expandedNodes |-> expandedNodes, loadingNodes |-> loadingNodes,
     searchQuery |-> searchQuery, filteredNodes |-> filteredNodes,
     config |-> config]

SetStore(S) ==
    /\ nodes' = S.nodes
    /\ rootPaths' = S.rootPaths
    /\ selectedNodes' = S.selectedNodes
    /\ expandedNodes' = S.expandedNodes
    /\ loadingNodes' = S.loadingNodes
    /\ searchQuery' = S.searchQuery
    /\ filteredNodes' = S.filteredNodes
    /\ config' = S.config

defaultConfig == [showHiddenFiles |-> FALSE, sortBy |-> "name", sortOrder |-> "asc"]

initialState ==
    [nodes |-> <<>>, rootPaths |-> <<>>, selectedNodes |-> <<>>,
     expandedNodes |-> <<>>, loadingNodes |-> <<>>,
     searchQuery |-> "", filteredNodes |-> <<>>, config |-> defaultConfig]

----------------------------------------------------------------------------
\* Store operations (stores/fileTreeStore), as functions of the store state

RECURSIVE setNodesFrom(_, _, _)
setNodesFrom(list, nodesMap, roots) ==
    IF list = <<>> THEN [nodes |-> nodesMap, rootPaths |-> roots]
    ELSE LET node == Head(list)
             m == [k \in DOMAIN nodesMap \cup {node.id} |->
                      IF k = node.id THEN node ELSE nodesMap[k]]
         IN setNodesFrom(Tail(list), m,
                         IF node.depth = 0 THEN Append(roots, node.path) ELSE roots)

setNodes(S, list) ==
    LET r == setNodesFrom(list, <<>>, <<>>)
    IN [S EXCEPT !.nodes = r.nodes, !.rootPaths = r.rootPaths]

addNode(S, node) ==
    [S EXCEPT
        !.nodes = [k \in DOMAIN S.nodes \cup {node.id} |->
                      IF k = node.id THEN node ELSE S.nodes[k]],
        !.rootPaths = IF node.depth = 0 THEN Append(S.rootPaths, node.path)
                      ELSE S.rootPaths]

updateNode(S, id, updates) ==
    [S EXCEPT
        !.nodes = [k \in DOMAIN S.nodes \cup {id} |->
                      IF k = id THEN Merge(Lookup(S.nodes, id), updates)
                      ELSE S.nodes[k]]]

RECURSIVE deleteChildren(_, _)
RECURSIVE deleteEach(_, _)
deleteChildren(newNodes, nodeId) ==
    LET m == IF Has(newNodes, nodeId) /\ newNodes[nodeId].hasChildren
             THEN deleteEach(newNodes, newNodes[nodeId].children)
             ELSE newNodes
    IN [k \in DOMAIN m \ {nodeId} |-> m[k]]
deleteEach(newNodes, children) ==
    IF children = <<>> THEN newNodes
    ELSE deleteEach(deleteChildren(newNodes, Head(children).id), Tail(children))

\* (a faulty variant first: the whole selection is dropped)
removeNode_ClearsSelection(S, id) ==
    LET node == Lookup(S.nodes, id)
    IN [S EXCEPT
          !.nodes = IF Has(S.nodes, id) THEN deleteChildren(S.nodes, id) ELSE S.nodes,
          !.selectedNodes = <<>>,
          !.expandedNodes = Filter(S.expandedNodes, id),
          !.loadingNodes = Filter(S.loadingNodes, id),
          !.rootPaths = IF node.depth = 0 THEN Filter(S.rootPaths, node.path)
                        ELSE S.rootPaths]
removeNode(S, id) ==
    LET node == Lookup(S.nodes, id)
    IN [S EXCEPT
          !.nodes = IF Has(S.nodes, id) THEN deleteChildren(S.nodes, id) ELSE S.nodes,
          !.selectedNodes = Filter(S.selectedNodes, id),
          !.expandedNodes = Filter(S.expandedNodes, id),
          !.loadingNodes = Filter(S.loadingNodes, id),
          !.rootPaths = IF node.depth = 0 THEN Filter(S.rootPaths, node.path)
                        ELSE S.rootPaths]

expandNodeInStore(S, nodeId) ==
    [S EXCEPT !.expandedNodes = IF Contains(S.expandedNodes, nodeId)
                                THEN S.expandedNodes
                                ELSE Append(S.expandedNodes, nodeId)]

collapseNodeInStore(S, nodeId) ==
    [S EXCEPT !.expandedNodes = Filter(S.expandedNodes, nodeId)]

toggleNodeInStore(S, nodeId) ==
    IF Contains(S.expandedNodes, nodeId) THEN collapseNodeInStore(S, nodeId)
    ELSE expandNodeInStore(S, nodeId)

\* (a faulty variant first: multiSelect adds without looking)
selectNodeInStore_AlwaysAdds(S, nodeId, multiSelect) ==
    [S EXCEPT !.selectedNodes =
        IF multiSelect THEN Append(S.selectedNodes, nodeId) ELSE <<nodeId>>]
selectNodeInStore(S, nodeId, multiSelect) ==
    [S EXCEPT !.selectedNodes =
        IF multiSelect
        THEN IF Contains(S.selectedNodes, nodeId)
             THEN Filter(S.selectedNodes, nodeId)
             ELSE Append(S.selectedNodes, nodeId)
        ELSE <<nodeId>>]

clearSelectionInStore(S) == [S EXCEPT !.selectedNodes = <<>>]

\* (a faulty variant first: loading adds without looking)
setLoading_AlwaysAdds(S, nodeId, loading) ==
    LET S1 == [S EXCEPT !.loadingNodes =
                  IF loading THEN Append(S.loadingNodes, nodeId)
                  ELSE Filter(S.loadingNodes, nodeId)]
    IN updateNode(S1, nodeId, [isLoading |-> IF loading THEN "true" ELSE "false"])
setLoading(S, nodeId, loading) ==
    LET S1 == [S EXCEPT !.loadingNodes =
                  IF loading
                  THEN IF Contains(S.loadingNodes, nodeId) THEN S.loadingNodes
                       ELSE Append(S.loadingNodes, nodeId)
                  ELSE Filter(S.loadingNodes, nodeId)]
    IN updateNode(S1, nodeId, [isLoading |-> IF loading THEN "true" ELSE "false"])

\* filterNodesByQuery.  keys is Object.values(nodes) as the ids of the table in
\* its key order.  node.name.toLowerCase() of a node without a name throws.
filterNodesByQuery(nodesMap, query, keys) ==
    IF trim(Chars(query)) = <<>> THEN [threw |-> FALSE, filtered |-> <<>>]
    ELSE IF \E k \in DOMAIN nodesMap : nodesMap[k].name = "undefined"
    THEN [threw |-> TRUE, filtered |-> <<>>]
    ELSE LET lowerQuery == toLowerCase(Chars(query))
             hits == SelectSeq(keys, LAMBDA k :
                        includes(toLowerCase(Chars(nodesMap[k].name)), lowerQuery))
         IN [threw |-> FALSE, filtered |-> [i \in 1..Len(hits) |-> nodesMap[hits[i]].id]]

\* filterNodes: a throw of filterNodesByQuery leaves filteredNodes as it was
filterNodes(S, query, keys) ==
    LET r == filterNodesByQuery(S.nodes, query, keys)
    IN IF r.threw THEN S ELSE [S EXCEPT !.filteredNodes = r.filtered]

setSearchQuery(S, query, keys) ==
    filterNodes([S EXCEPT !.searchQuery = query], query, keys)

clearFilter(S) == [S EXCEPT !.searchQuery = "", !.filteredNodes = <<>>]

----------------------------------------------------------------------------
\* Sorting (sortNodesByConfig, sortNodes)

\* the names of the model in the order of localeCompare(.., 'zh-CN', {numeric: true})
NameOrder == <<".h", "a", "b", "d", "f", "file2", "file10", "g", "p", "y", "z">>
IndexOf(s, x) == CHOOSE i \in 1..Len(s) : s[i] = x
Sign(n) == IF n < 0 THEN -1 ELSE IF n > 0 THEN 1 ELSE 0
localeCompare(a, b) == Sign(IndexOf(NameOrder, a) - IndexOf(NameOrder, b))

\* name.split('.').pop(): no name of the model holds a '.', the whole name is left
Extension(name) == name

\* size || 0, lastModified || 0
OrZero(n) == IF n = -1 THEN 0 ELSE n

compareNodes(a, b, sortBy, sortOrder) ==
    LET comparison ==
          IF a.type # b.type
          THEN IF a.type = "directory" THEN -1 ELSE 1
          ELSE CASE sortBy = "name" -> localeCompare(a.name, b.name)
                 [] sortBy = "type" -> localeCompare(Extension(a.name), Extension(b.name))
                 [] sortBy = "size" -> OrZero(a.size) - OrZero(b.size)
                 [] sortBy = "modified" -> OrZero(a.lastModified) - OrZero(b.lastModified)
    IN IF sortOrder = "desc" THEN -comparison ELSE comparison

\* Array.prototype.sort is stable: x goes behind every element that does not
\* compare greater than it
RECURSIVE insertSorted(_, _, _, _)
insertSorted(sorted, x, sortBy, sortOrder) ==
    IF sorted = <<>> THEN <<x>>
    ELSE IF compareNodes(Last(sorted), x, sortBy, sortOrder) <= 0
         THEN Append(sorted, x)
         ELSE Append(insertSorted(Front(sorted), x, sortBy, sortOrder), Last(sorted))

RECURSIVE sortFrom(_, _, _, _)
sortFrom(list, sorted, sortBy, sortOrder) ==
    IF list = <<>> THEN sorted
    ELSE sortFrom(Tail(list), insertSorted(sorted, Head(list), sortBy, sortOrder),
                  sortBy, sortOrder)

sortNodesByConfig(list, sortBy, sortOrder) == sortFrom(list, <<>>, sortBy, sortOrder)

sortNodes(S, sortBy, sortOrder) ==
    [S EXCEPT
        !.config = [S.config EXCEPT !.sortBy = sortBy, !.sortOrder = sortOrder],
        !.nodes = [k \in DOMAIN S.nodes |->
                     IF S.nodes[k].hasChildren /\ Len(S.nodes[k].children) > 0
                     THEN [S.nodes[k] EXCEPT
                             !.children = sortNodesByConfig(@, sortBy, sortOrder)]
                     ELSE S.nodes[k]]]

----------------------------------------------------------------------------
\* Watch events (handleFileWatchEvent)

\* FileWatchEvent: stats and oldPath are optional
Event(type, path, oldPath, hasStats) ==
    [type |-> type, path |-> path, oldPath |-> oldPath, hasStats |-> hasStats,
     isDirectory |-> hasStats /\ Last(path) \in DirNames,
     size |-> IF hasStats THEN 7 ELSE -1,
     lastModified |-> IF hasStats THEN 2 ELSE -1]

\* the id of the node an event refers to: the old path's for 'renamed'
EventNodeId(event) ==
    IF event.type = "renamed"
    THEN IF event.oldPath \in {UndefPath, <<>>} THEN NoId
         ELSE generateNodeId(event.oldPath)
    ELSE generateNodeId(event.path)

\* a path as Windows gives it: it holds no '/', and stands in the model as
\* one segment that is the whole string
WindowsFile == <<"C:\\p\\f">>
\* path.split('/'): a path with '/' starts with it, and the part before the
\* first '/' is the empty string
splitSlash(path) == IF path = WindowsFile THEN path ELSE <<"">> \o path
\* parts.join('/') as a path of the model
joinSlash(parts) == IF parts = <<>> THEN <<>> ELSE Tail(parts)

watchCreated(S, event) ==
    LET nodeId == generateNodeId(event.path)
        pathParts == splitSlash(event.path)        \* event.path.split('/')
        name == Last(pathParts)
        parentPath == joinSlash(Front(pathParts))  \* slice(0, -1).join('/')
        newNode ==
            [UndefNode EXCEPT
                !.id = nodeId, !.name = name, !.path = event.path,
                !.type = IF event.isDirectory THEN "directory" ELSE "file",
                !.size = event.size,
                !.lastModified = event.lastModified,
                !.parent = generateNodeId(parentPath),
                !.depth = Len(pathParts) - 1,
                !.hasChildren = event.isDirectory]
    IN IF event.hasStats THEN addNode(S, newNode) ELSE S

\* a faulty variant: 'modified' without the check that the node exists
watchModified_NoGuard(S, event) ==
    IF event.hasStats
    THEN updateNode(S, generateNodeId(event.path),
                    [size |-> event.size, lastModified |-> event.lastModified])
    ELSE S

watchModified(S, event) ==
    LET nodeId == generateNodeId(event.path)
    IN IF event.hasStats /\ Has(S.nodes, nodeId)
       THEN updateNode(S, nodeId, [size |-> event.size,
                                   lastModified |-> event.lastModified])
       ELSE S

watchDeleted(S, event) ==
    LET nodeId == generateNodeId(event.path)
    IN IF Has(S.nodes, nodeId) THEN removeNode(S, nodeId) ELSE S

\* a faulty variant: 'renamed' that adds the new node and keeps the old one
watchRenamed_KeepsOld(S, event) ==
    LET nodeId == generateNodeId(event.path)
        name == Last(<<"">> \o event.path)
    IN IF event.oldPath \notin {UndefPath, <<>>}
          /\ Has(S.nodes, generateNodeId(event.oldPath))
       THEN addNode(S, [S.nodes[generateNodeId(event.oldPath)] EXCEPT
                           !.id = nodeId, !.name = name, !.path = event.path])
       ELSE S

watchRenamed(S, event) ==
    LET nodeId == generateNodeId(event.path)
        pathParts == <<"">> \o event.path
        name == Last(pathParts)
    IN IF event.oldPath \notin {UndefPath, <<>>}
          /\ Has(S.nodes, generateNodeId(event.oldPath))
       THEN LET oldNodeId == generateNodeId(event.oldPath)
                oldNode == S.nodes[oldNodeId]
                newNode == [oldNode EXCEPT !.id = nodeId, !.name = name,
                                           !.path = event.path]
            IN addNode(removeNode(S, oldNodeId), newNode)
       ELSE S

handleFileWatchEvent(S, event) ==
    CASE event.type = "created" -> watchCreated(S, event)
      [] event.type = "modified" -> watchModified(S, event)
      [] event.type = "deleted" -> watchDeleted(S, event)
      [] event.type = "renamed" -> watchRenamed(S, event)

----------------------------------------------------------------------------
\* The gateway (window.electronAPI, served by main/services/fileService and
\* main/ipc/fileSystem).  fs is the set of the paths that exist; an entry is a
\* directory when its name is one of DirNames.

IsDir(path) == Last(path) \in DirNames
Under(path, dir) == Len(path) > Len(dir) /\ SubSeq(path, 1, Len(dir)) = dir

\* the entries of a directory, directories first and then by name
EntryBefore(a, b) ==
    IF (a \in DirNames) # (b \in DirNames) THEN a \in DirNames
    ELSE localeCompare(a, b) < 0
RECURSIVE SortedNames(_)
SortedNames(names) ==
    IF names = {} THEN <<>>
    ELSE LET first == CHOOSE n \in names : \A m \in names \ {n} : EntryBefore(n, m)
         IN <<first>> \o SortedNames(names \ {first})

\* FileSystemItem of an entry
Item(name) ==
    [name |-> name, isDirectory |-> name \in DirNames,
     size |-> IF name \in DirNames THEN 4 ELSE 5, modified |-> 1]

\* item.startsWith('.') && !item.startsWith('.git'), over the names of the model
Skipped(name) == name = ".h"

readDirectoryItems(files, dirPath) ==
    LET names == {Last(q) : q \in {r \in files : /\ Len(r) = Len(dirPath) + 1
                                                /\ Under(r, dirPath)
                                                /\ ~Skipped(Last(r))}}
        sorted == SortedNames(names)
    IN [i \in 1..Len(sorted) |-> Item(sorted[i])]

\* exists + getInfo + readDirectory can succeed
CanRead(files, dirPath) == dirPath \in files /\ IsDir(dirPath)

\* FileService.createFile / createDirectory can succeed
CanCreate(files, parentPath, name) ==
    parentPath \in files /\ (parentPath \o <<name>>) \notin files
gatewayCreate(files, parentPath, name) == files \cup {parentPath \o <<name>>}

\* FileService.deleteItem can succeed; a directory goes with all it holds
CanDelete(files, path) == path \in files
gatewayDelete(files, path) == {q \in files : q # path /\ ~Under(q, path)}

\* FileService.renameItem can succeed; fs.rename moves what the entry holds
CanRename(files, oldPath, newPath) == oldPath \in files /\ newPath \notin files
gatewayRename(files, oldPath, newPath) ==
    {IF q = oldPath THEN newPath
     ELSE IF Under(q, oldPath)
          THEN newPath \o SubSeq(q, Len(oldPath) + 1, Len(q))
          ELSE q : q \in files}

----------------------------------------------------------------------------
\* The tree service (services/fileTreeService): cache and node construction.
\* A cache value is [cache |-> path -> nodes, cacheExpiry |-> path -> time].

CACHE_DURATION == 300000

\* (a faulty variant first: an entry expires at its expiry time already)
cleanExpiredCache_Inclusive(c, t) ==
    LET keep == {k \in DOMAIN c.cacheExpiry : ~(t >= c.cacheExpiry[k])}
    IN [cache |-> [k \in DOMAIN c.cache \cap keep |-> c.cache[k]],
        cacheExpiry |-> [k \in keep |-> c.cacheExpiry[k]]]
cleanExpiredCache(c, t) ==
    LET keep == {k \in DOMAIN c.cacheExpiry : ~(t > c.cacheExpiry[k])}
    IN [cache |-> [k \in DOMAIN c.cache \cap keep |-> c.cache[k]],
        cacheExpiry |-> [k \in keep |-> c.cacheExpiry[k]]]

setCachedNodes(c, path, list, t) ==
    [cache |-> [k \in DOMAIN c.cache \cup {path} |->
                   IF k = path THEN list ELSE c.cache[k]],
     cacheExpiry |-> [k \in DOMAIN c.cacheExpiry \cup {path} |->
                   IF k = path THEN t + CACHE_DURATION ELSE c.cacheExpiry[k]]]

clearCache(c, path) ==
    [cache |-> [k \in DOMAIN c.cache \ {path} |-> c.cache[k]],
     cacheExpiry |-> [k \in DOMAIN c.cacheExpiry \ {path} |-> c.cacheExpiry[k]]]

clearAllCache == [cache |-> <<>>, cacheExpiry |-> <<>>]

Cache == [cache |-> cache, cacheExpiry |-> cacheExpiry]
SetCache(c) == cache' = c.cache /\ cacheExpiry' = c.cacheExpiry

\* getCachedNodes: the cache after the sweep, and this.cache.get(path) || null
\* (an array, even an empty one, is truthy)
getCachedNodes(c, path, t) ==
    LET c1 == cleanExpiredCache(c, t)
    IN [cache |-> c1,
        hit |-> path \in DOMAIN c1.cache,
        result |-> IF path \in DOMAIN c1.cache THEN c1.cache[path] ELSE <<>>]

\* the cache after the lookup of readDirectory: getCachedNodes sweeps first
cacheAfterLookup(c, useCache, t) == IF useCache THEN cleanExpiredCache(c, t) ELSE c
\* the lookup hits: an array, even an empty one, is truthy
\* (a faulty variant first: the cache is looked up whatever useCache is)
cacheHit_IgnoresUseCache(c, dirPath, useCache, t) ==
    dirPath \in DOMAIN cleanExpiredCache(c, t).cache
cacheHit(c, dirPath, useCache, t) ==
    useCache /\ dirPath \in DOMAIN cleanExpiredCache(c, t).cache

IsHidden(name) == name = ".h"          \* file.name.startsWith('.')

readDirectoryNodes(dirPath, items, cfg) ==
    LET depth == Len(dirPath)              \* dirPath.split('/').filter(Boolean).length
        shown == SelectSeq(items, LAMBDA file :
                     ~(~cfg.showHiddenFiles /\ IsHidden(file.name)))
    IN [i \in 1..Len(shown) |->
          [UndefNode EXCEPT
              !.id = generateNodeId(dirPath \o <<shown[i].name>>),
              !.name = shown[i].name,
              !.path = dirPath \o <<shown[i].name>>,
              !.type = IF shown[i].isDirectory THEN "directory" ELSE "file",
              !.size = shown[i].size,
              !.lastModified = shown[i].modified,
              !.depth = depth,
              !.parent = generateNodeId(dirPath),
              !.hasChildren = shown[i].isDirectory,
              !.isExpanded = "false",
              !.isLoading = "false"]]

\* fileOperationService.validateFileName: valid of the result
invalidChars == {"<", ">", ":", "\"", "/", "\\", "|", "?", "*"}
reservedNames ==
    {<<"C", "O", "N">>, <<"P", "R", "N">>, <<"A", "U", "X">>, <<"N", "U", "L">>}
    \cup {<<"C", "O", "M", d>> : d \in {"1", "2", "3", "4", "5", "6", "7", "8", "9"}}
    \cup {<<"L", "P", "T", d>> : d \in {"1", "2", "3", "4", "5", "6", "7", "8", "9"}}
\* (faulty variants first: no test at all; the reserved names without the flag i)
validateFileName_AcceptsAll(fileName) == TRUE
validateFileName_CaseSensitive(fileName) ==
    IF fileName = <<>> \/ trim(fileName) = <<>> THEN FALSE
    ELSE IF \E i \in 1..Len(fileName) : fileName[i] \in invalidChars THEN FALSE
    ELSE IF fileName \in reservedNames THEN FALSE
    ELSE IF Len(fileName) > 255 THEN FALSE
    ELSE TRUE
validateFileName(fileName) ==
    IF fileName = <<>> \/ trim(fileName) = <<>> THEN FALSE
    ELSE IF \E i \in 1..Len(fileName) : fileName[i] \in invalidChars THEN FALSE
    ELSE IF \E r \in reservedNames : toLowerCase(r) = toLowerCase(fileName) THEN FALSE
    ELSE IF Len(fileName) > 255 THEN FALSE
    ELSE TRUE

\* the node createNode returns
createdNode(parentPath, name, type, t) ==
    LET fullPath == parentPath \o <<name>>
    IN [UndefNode EXCEPT
          !.id = generateNodeId(fullPath), !.name = name, !.path = fullPath,
          !.type = type, !.size = 0, !.lastModified = t,
          !.depth = Len(fullPath),         \* fullPath.split('/').filter(Boolean).length
          !.parent = generateNodeId(parentPath),
          !.hasChildren = (type = "directory"),
          !.isExpanded = "false", !.isLoading = "false"]

\* node.path.substring(0, node.path.lastIndexOf('/'))
parentPathOf(path) == Front(path)

\* the cache after a successful deleteNode
cacheAfterDelete(c, node) ==
    LET c1 == clearCache(c, node.path)
    IN IF node.parent # NoId THEN clearCache(c1, parentPathOf(node.path)) ELSE c1

\* renameNode: the new path, the cache after a success, the node returned
renamedPath(node, newName) == Front(node.path) \o <<newName>>
cacheAfterRename(c, node, newName) ==
    LET c1 == clearCache(clearCache(c, node.path), renamedPath(node, newName))
    IN IF node.parent # NoId THEN clearCache(c1, parentPathOf(node.path)) ELSE c1
\* a faulty variant: the spread without a new id
renamedNode_KeepsId(node, newName, t) ==
    [node EXCEPT !.name = newName,
                 !.path = renamedPath(node, newName),
                 !.lastModified = t]
renamedNode(node, newName, t) ==
    [node EXCEPT !.id = generateNodeId(renamedPath(node, newName)),
                 !.name = newName,
                 !.path = renamedPath(node, newName),
                 !.lastModified = t]

----------------------------------------------------------------------------
\* Inputs of the store specification

\* mockNodes of the store's test suite, with the ids the code derives from paths
MockRoot ==
    [UndefNode EXCEPT !.id = generateNodeId(P), !.name = "p", !.path = P,
        !.type = "directory", !.depth = 0, !.hasChildren = TRUE,
        !.isExpanded = "false", !.isLoading = "false"]
MockSrc ==
    [UndefNode EXCEPT !.id = generateNodeId(PD), !.name = "d", !.path = PD,
        !.type = "directory", !.depth = 1, !.parent = generateNodeId(P),
        !.hasChildren = TRUE, !.isExpanded = "false", !.isLoading = "false"]
MockFile ==
    [UndefNode EXCEPT !.id = generateNodeId(PDF), !.name = "f", !.path = PDF,
        !.type = "file", !.size = 5, !.lastModified = 1, !.depth = 2,
        !.parent = generateNodeId(PD)]
mockNodes == <<MockRoot, MockSrc, MockFile>>

\* the same tree with the child lists filled in, as expandNode leaves them
LoadedSrc == [MockSrc EXCEPT !.children = <<MockFile>>]
LoadedRoot == [MockRoot EXCEPT !.children = <<MockSrc>>]
loadedNodes == <<LoadedRoot, LoadedSrc, MockFile>>

\* the node of the test "应该能添加节点"
NewFile ==
    [UndefNode EXCEPT !.id = generateNodeId(PF), !.name = "f", !.path = PF,
        !.type = "file", !.depth = 1, !.parent = generateNodeId(P)]

StoreIds == {generateNodeId(P), generateNodeId(PD), generateNodeId(PDF),
             generateNodeId(PF)}

WatchEvents ==
    {Event("created", p, UndefPath, TRUE) : p \in {PF, PDF}}
    \cup {Event("created", PF, UndefPath, FALSE)}
    \cup {Event("modified", p, UndefPath, h) : p \in {PDF, PF}, h \in BOOLEAN}
    \cup {Event("deleted", p, UndefPath, FALSE) : p \in {P, PD, PDF}}
    \cup {Event("renamed", PG, o, FALSE) : o \in {PF, UndefPath}}
    \cup {Event("renamed", PF, PD, FALSE)}

\* the operation of a step: its name, a qualifier, the node id and path it was
\* given, whether that id was in the table before the step, and the slot of the
\* hook call the step belongs to (0: a synchronous store call)
OpT(op, kind, id, path, present, slot) ==
    [op |-> op, kind |-> kind, id |-> id, path |-> path, present |-> present,
     slot |-> slot]
Op(op, kind, id, path, present) == OpT(op, kind, id, path, present, 0)

----------------------------------------------------------------------------
\* The store specification: the store's synchronous API and the watch events

InitStore ==
    /\ nodes = initialState.nodes
    /\ rootPaths = initialState.rootPaths
    /\ selectedNodes = initialState.selectedNodes
    /\ expandedNodes = initialState.expandedNodes
    /\ loadingNodes = initialState.loadingNodes
    /\ searchQuery = initialState.searchQuery
    /\ filteredNodes = initialState.filteredNodes
    /\ config = initialState.config
    /\ cache = <<>> /\ cacheExpiry = <<>> /\ now = 0
    /\ fs = {} /\ notifications = {} /\ tasks = <<>>
    /\ steps = 0
    /\ last = Op("init", "", NoId, <<>>, FALSE)

StoreStep(S, l) ==
    /\ steps < MaxSteps
    /\ SetStore(S)
    /\ steps' = steps + 1
    /\ last' = l
    /\ UNCHANGED <<cache, cacheExpiry, now, fs, notifications, tasks>>

SetNodes ==
    \E list \in {mockNodes, loadedNodes} :
        StoreStep(setNodes(Store, list), Op("setNodes", "", NoId, <<>>, FALSE))

AddNode ==
    \E node \in {NewFile, LoadedRoot} :
        StoreStep(addNode(Store, node),
                  Op("addNode", "", node.id, node.path, Has(nodes, node.id)))

UpdateNode ==
    \E id \in StoreIds :
        StoreStep(updateNode(Store, id, [size |-> 9]),
                  Op("updateNode", "", id, <<>>, Has(nodes, id)))

RemoveNode ==
    \E id \in StoreIds :
        StoreStep(removeNode(Store, id),
                  Op("removeNode",
                     IF Contains(selectedNodes, id) THEN "selected" ELSE "",
                     id, <<>>, Has(nodes, id)))

ExpandNodeInStore ==
    \E id \in StoreIds :
        StoreStep(expandNodeInStore(Store, id),
                  Op("expandNode", "", id, <<>>, Has(nodes, id)))

ToggleNode ==
    \E id \in StoreIds :
        StoreStep(toggleNodeInStore(Store, id),
                  Op("toggleNode", "", id, <<>>, Has(nodes, id)))

SelectNode ==
    \E id \in StoreIds, multiSelect \in BOOLEAN :
        StoreStep(selectNodeInStore(Store, id, multiSelect),
                  Op("selectNode", IF multiSelect THEN "multi" ELSE "single",
                     id, <<>>, Has(nodes, id)))

SetLoading ==
    \E id \in StoreIds, loading \in BOOLEAN :
        StoreStep(setLoading(Store, id, loading),
                  Op("setLoading", IF loading THEN "true" ELSE "false",
                     id, <<>>, Has(nodes, id)))

HandleFileWatchEvent ==
    \E event \in WatchEvents :
        StoreStep(handleFileWatchEvent(Store, event),
                  Op("handleFileWatchEvent", event.type, EventNodeId(event),
                     event.path, Has(nodes, EventNodeId(event))))

NextStore ==
    \/ SetNodes
    \/ AddNode
    \/ UpdateNode
    \/ RemoveNode
    \/ ExpandNodeInStore
    \/ ToggleNode
    \/ SelectNode
    \/ SetLoading
    \/ HandleFileWatchEvent

SpecStore == InitStore /\ [][NextStore]_vars

----------------------------------------------------------------------------
\* The search specification: the store's search calls over tables built by
\* setNodes, addNode and updateNode

\* the orders in which Object.values can list a table: the key order of the
\* table is not part of the state
KeyOrders(m) ==
    {keys \in [1..Cardinality(DOMAIN m) -> DOMAIN m] :
        \A i, j \in DOMAIN keys : i # j => keys[i] # keys[j]}

SetSearchQuery ==
    \E query \in {"", " ", "F", "d"} :
        \E keys \in KeyOrders(nodes) :
            StoreStep(setSearchQuery(Store, query, keys),
                      Op("setSearchQuery", query, NoId, <<>>, FALSE))

ClearFilter ==
    StoreStep(clearFilter(Store), Op("clearFilter", "", NoId, <<>>, FALSE))

NextSearch ==
    \/ SetNodes
    \/ AddNode
    \/ UpdateNode
    \/ SetSearchQuery
    \/ ClearFilter

SpecSearch == InitStore /\ [][NextSearch]_vars

----------------------------------------------------------------------------
\* The hook specification (hooks/useFileTree): the hook's async calls, each
\* split at its await of the gateway, with watch events in between.  A call
\* through fileOperationService returns what the first attempt of withRetry that
\* does not fail returns, or fails: one step with either outcome.  What runs
\* after the gateway's answer (service, then hook) runs without interruption.  A
\* lookup that hits the cache completes in the step that starts the call.

TaskAt(kind, pc, path, id, node, name, roots, useCache, at) ==
    [kind |-> kind, pc |-> pc, path |-> path, id |-> id, node |-> node,
     name |-> name, roots |-> roots, useCache |-> useCache,
     result |-> <<>>, ok |-> FALSE, notes |-> {},
     startedAt |-> at,              \* the number of the call among the calls made
     endedAt |-> 0]                 \* the number of calls made when it finished
Task(kind, pc, path, id, node, name, roots, useCache) ==
    TaskAt(kind, pc, path, id, node, name, roots, useCache, steps + 1)

IdleTask == TaskAt("none", "done", <<>>, NoId, UndefNode, "", <<>>, FALSE, 0)

Slots == 1..MaxTasks
FreeSlots == {i \in Slots : tasks[i].pc = "done"}
FreeSlot == CHOOSE i \in FreeSlots : \A j \in FreeSlots : i <= j
CanStart == steps < MaxCalls /\ FreeSlots # {}

Finish(task, ok, result, notes, at) ==
    [task EXCEPT !.pc = "done", !.ok = ok, !.result = result,
                 !.notes = @ \cup notes, !.endedAt = at]

HookFiles == {P, PD, PF, PDF, <<"p", ".h">>, AB, ABF}
HookIds == {generateNodeId(q) : q \in {P, PD, PF, AB}}

InitHook ==
    /\ nodes = initialState.nodes
    /\ rootPaths = initialState.rootPaths
    /\ selectedNodes = initialState.selectedNodes
    /\ expandedNodes = initialState.expandedNodes
    /\ loadingNodes = initialState.loadingNodes
    /\ searchQuery = initialState.searchQuery
    /\ filteredNodes = initialState.filteredNodes
    /\ config = initialState.config
    /\ cache = <<>> /\ cacheExpiry = <<>> /\ now = 0
    /\ fs = HookFiles
    /\ notifications = {}
    /\ tasks = [i \in Slots |-> IdleTask]
    /\ steps = 0
    /\ last = Op("init", "", NoId, <<>>, FALSE)

\* loadDirectory: what follows the await of readDirectory, in the try block
loadDirectoryApply(S, path, list, roots) ==
    LET S1 == setNodes(S, list)
        root == [UndefNode EXCEPT
                    !.id = generateNodeId(path),
                    !.name = Last(path),          \* path.split('/').pop() || path
                    !.path = path, !.type = "directory", !.depth = 0,
                    !.children = list, !.hasChildren = TRUE,
                    !.isExpanded = "true", !.isLoading = "false"]
    IN IF ~Contains(roots, path) THEN addNode(S1, root) ELSE S1

\* loadDirectory: getNodeById(path)?.id, then setLoading(nodeId, loading)
loadDirectoryLoading(S, path, loading) ==
    IF Has(S.nodes, path) /\ S.nodes[path].id # NoId
    THEN setLoading(S, S.nodes[path].id, loading)
    ELSE S

RECURSIVE addNodes(_, _)
addNodes(S, list) ==
    IF list = <<>> THEN S ELSE addNodes(addNode(S, Head(list)), Tail(list))

\* a faulty variant: expandNode without the finally block
expandNodeApply_LeavesLoading(S, nodeId, children) ==
    expandNodeInStore(
        addNodes(updateNode(S, nodeId, [children |-> children, hasChildren |-> TRUE]),
                 children),
        nodeId)
\* expandNode: what follows the await of loadChildren, and the finally block
expandNodeApply(S, nodeId, children) ==
    LET S1 == updateNode(S, nodeId, [children |-> children, hasChildren |-> TRUE])
        S2 == addNodes(S1, children)
        S3 == expandNodeInStore(S2, nodeId)
    IN setLoading(S3, nodeId, FALSE)

LoadDirectoryStart ==
    \E path \in {P, AB}, useCache \in {TRUE} :
        LET slot == FreeSlot
            S1 == loadDirectoryLoading(Store, path, TRUE)
            c1 == cacheAfterLookup(Cache, useCache, now)
            task == Task("loadDirectory", "gateway", path, NoId, UndefNode, "",
                         rootPaths, useCache)
        IN /\ CanStart
           /\ steps' = steps + 1
           /\ SetCache(c1)
           /\ IF cacheHit(Cache, path, useCache, now)
              THEN /\ SetStore(loadDirectoryLoading(
                          loadDirectoryApply(S1, path, c1.cache[path], rootPaths),
                          path, FALSE))
                   /\ tasks' = [tasks EXCEPT ![slot] =
                                  Finish(task, TRUE, c1.cache[path], {}, steps + 1)]
                   /\ last' = OpT("loadDirectory:done", "cached", NoId, path, FALSE, slot)
              ELSE /\ SetStore(S1)
                   /\ tasks' = [tasks EXCEPT ![slot] = task]
                   /\ last' = OpT("loadDirectory:start", "", NoId, path, FALSE, slot)
           /\ UNCHANGED <<now, fs, notifications>>

LoadDirectoryDone ==
    \E slot \in Slots, ok \in BOOLEAN :
        LET task == tasks[slot]
            list == readDirectoryNodes(task.path, readDirectoryItems(fs, task.path),
                                       config)
            note == <<"error", "load failed">>       \* '加载失败'
        IN /\ task.kind = "loadDirectory" /\ task.pc = "gateway"
           /\ ok => CanRead(fs, task.path)
           /\ IF ok
              THEN /\ SetStore(loadDirectoryLoading(
                          loadDirectoryApply(Store, task.path, list, task.roots),
                          task.path, FALSE))
                   /\ SetCache(IF task.useCache
                               THEN setCachedNodes(Cache, task.path, list, now)
                               ELSE Cache)
                   /\ tasks' = [tasks EXCEPT ![slot] = Finish(task, TRUE, list, {}, steps)]
                   /\ UNCHANGED notifications
              ELSE /\ SetStore(loadDirectoryLoading(Store, task.path, FALSE))
                   /\ notifications' = notifications \cup {note}
                   /\ tasks' = [tasks EXCEPT ![slot] = Finish(task, FALSE, <<>>, {note}, steps)]
                   /\ UNCHANGED <<cache, cacheExpiry>>
           /\ last' = OpT("loadDirectory:done", IF ok THEN "ok" ELSE "failed",
                          NoId, task.path, FALSE, slot)
           /\ UNCHANGED <<now, fs, steps>>

\* refreshAll: clearAllCache, then loadDirectory(path, false) of every root path
RefreshAll ==
    LET free == FreeSlots
        n == Len(rootPaths)
        slotOf(i) == CHOOSE k \in free : Cardinality({j \in free : j < k}) = i - 1
    IN /\ steps < MaxCalls
       /\ n >= 1 /\ n <= Cardinality(free)
       /\ steps' = steps + 1
       /\ SetCache(clearAllCache)
       /\ SetStore(Store)
       /\ tasks' = [k \in Slots |->
                      IF \E i \in 1..n : slotOf(i) = k
                      THEN Task("loadDirectory", "gateway",
                                rootPaths[CHOOSE i \in 1..n : slotOf(i) = k],
                                NoId, UndefNode, "", rootPaths, FALSE)
                      ELSE tasks[k]]
       /\ last' = Op("refreshAll", "", NoId, <<>>, FALSE)
       /\ UNCHANGED <<now, fs, notifications>>

ExpandNodeStart ==
    \E nodeId \in HookIds :
        LET slot == FreeSlot
            node == Lookup(nodes, nodeId)
            present == Has(nodes, nodeId)
            c1 == cacheAfterLookup(Cache, TRUE, now)
            task == Task("expandNode", "gateway", node.path, nodeId, node, "",
                         <<>>, TRUE)
        IN /\ CanStart
           /\ steps' = steps + 1
           /\ IF ~present \/ node.type # "directory" \/ Contains(expandedNodes, nodeId)
              THEN /\ last' = OpT("expandNode:return", "", nodeId, <<>>, present, 0)
                   /\ UNCHANGED <<storeVars, cache, cacheExpiry, tasks>>
              ELSE /\ SetCache(c1)
                   /\ IF cacheHit(Cache, node.path, TRUE, now)
                      THEN /\ SetStore(expandNodeApply(setLoading(Store, nodeId, TRUE),
                                                       nodeId, c1.cache[node.path]))
                           /\ tasks' = [tasks EXCEPT ![slot] =
                                          Finish(task, TRUE, c1.cache[node.path], {}, steps + 1)]
                           /\ last' = OpT("expandNode:done", "cached", nodeId,
                                          node.path, present, slot)
                      ELSE /\ SetStore(setLoading(Store, nodeId, TRUE))
                           /\ tasks' = [tasks EXCEPT ![slot] = task]
                           /\ last' = OpT("expandNode:start", "", nodeId, node.path,
                                          present, slot)
           /\ UNCHANGED <<now, fs, notifications>>

ExpandNodeDone ==
    \E slot \in Slots, ok \in BOOLEAN :
        LET task == tasks[slot]
            list == readDirectoryNodes(task.path, readDirectoryItems(fs, task.path),
                                       config)
            note == <<"error", "load failed">>       \* loadChildren: '加载失败'
            children == IF ok THEN list ELSE <<>>
        IN /\ task.kind = "expandNode" /\ task.pc = "gateway"
           /\ ok => CanRead(fs, task.path)
           /\ SetStore(expandNodeApply(Store, task.id, children))
           /\ IF ok
              THEN /\ SetCache(setCachedNodes(Cache, task.path, list, now))
                   /\ UNCHANGED notifications
              ELSE /\ notifications' = notifications \cup {note}
                   /\ UNCHANGED <<cache, cacheExpiry>>
           /\ tasks' = [tasks EXCEPT ![slot] =
                           Finish(task, ok, children, IF ok THEN {} ELSE {note}, steps)]
           /\ last' = OpT("expandNode:done", IF ok THEN "ok" ELSE "failed",
                          task.id, task.path, Has(nodes, task.id), slot)
           /\ UNCHANGED <<now, fs, steps>>

CreateFileStart ==
    \E parentPath \in {P}, name \in {"g", ""} :
        LET slot == FreeSlot
            note == <<"error", "invalid file name">>     \* '文件名无效'
            task == Task("createFile", "gateway", parentPath, NoId, UndefNode,
                         name, <<>>, FALSE)
        IN /\ CanStart
           /\ steps' = steps + 1
           /\ IF ~validateFileName(Chars(name))
              THEN /\ notifications' = notifications \cup {note}
                   /\ tasks' = [tasks EXCEPT ![slot] = Finish(task, FALSE, <<>>, {note}, steps + 1)]
                   /\ last' = OpT("createFile:done", "invalid", NoId, parentPath,
                                  FALSE, slot)
              ELSE /\ tasks' = [tasks EXCEPT ![slot] = task]
                   /\ last' = OpT("createFile:start", "", NoId, parentPath, FALSE, slot)
                   /\ UNCHANGED notifications
           /\ UNCHANGED <<storeVars, cache, cacheExpiry, now, fs>>

CreateFileDone ==
    \E slot \in Slots, ok \in BOOLEAN :
        LET task == tasks[slot]
            node == createdNode(task.path, task.name, "file", now)
            note == IF ok THEN <<"success", "created">>     \* '创建成功'
                          ELSE <<"error", "create file">>   \* '创建文件'
        IN /\ task.kind = "createFile" /\ task.pc = "gateway"
           /\ ok => CanCreate(fs, task.path, task.name)
           /\ IF ok
              THEN /\ fs' = gatewayCreate(fs, task.path, task.name)
                   /\ SetCache(clearCache(Cache, task.path))
                   /\ SetStore(addNode(Store, node))
              ELSE UNCHANGED <<fs, cache, cacheExpiry, storeVars>>
           /\ notifications' = notifications \cup {note}
           /\ tasks' = [tasks EXCEPT ![slot] =
                           Finish(task, ok, IF ok THEN <<node>> ELSE <<>>, {note}, steps)]
           /\ last' = OpT("createFile:done", IF ok THEN "ok" ELSE "failed",
                          node.id, node.path, Has(nodes, node.id), slot)
           /\ UNCHANGED <<now, steps>>

DeleteNodeStart ==
    \E nodeId \in HookIds :
        LET slot == FreeSlot
            node == Lookup(nodes, nodeId)
            present == Has(nodes, nodeId)
        IN /\ CanStart
           /\ steps' = steps + 1
           /\ IF ~present
              THEN /\ last' = OpT("deleteNode:return", "", nodeId, <<>>, FALSE, 0)
                   /\ UNCHANGED tasks
              ELSE /\ tasks' = [tasks EXCEPT ![slot] =
                                  Task("deleteNode", "gateway", node.path, nodeId,
                                       node, "", <<>>, FALSE)]
                   /\ last' = OpT("deleteNode:start", "", nodeId, node.path, TRUE, slot)
           /\ UNCHANGED <<storeVars, cache, cacheExpiry, now, fs, notifications>>

DeleteNodeDone ==
    \E slot \in Slots, ok \in BOOLEAN :
        LET task == tasks[slot]
            note == IF ok THEN <<"success", "deleted">>     \* '删除成功'
                          ELSE <<"error", "delete file">>   \* '删除文件'
        IN /\ task.kind = "deleteNode" /\ task.pc = "gateway"
           /\ ok => CanDelete(fs, task.path)
           /\ IF ok
              THEN /\ fs' = gatewayDelete(fs, task.path)
                   /\ SetCache(cacheAfterDelete(Cache, task.node))
                   /\ SetStore(removeNode(Store, task.id))
              ELSE UNCHANGED <<fs, cache, cacheExpiry, storeVars>>
           /\ notifications' = notifications \cup {note}
           /\ tasks' = [tasks EXCEPT ![slot] = Finish(task, ok, <<>>, {note}, steps)]
           /\ last' = OpT("deleteNode:done", IF ok THEN "ok" ELSE "failed",
                          task.id, task.path, Has(nodes, task.id), slot)
           /\ UNCHANGED <<now, steps>>

RenameNodeStart ==
    \E nodeId \in HookIds, newName \in {"g", "con"} :
        LET slot == FreeSlot
            node == Lookup(nodes, nodeId)
            present == Has(nodes, nodeId)
            task == Task("renameNode", "gateway", node.path, nodeId, node, newName,
                         <<>>, FALSE)
            invalid == <<"error", "invalid file name">>    \* '文件名无效'
            thrown == <<"error", "rename file">>           \* '重命名文件'
        IN /\ CanStart
           /\ steps' = steps + 1
           /\ IF ~present
              THEN /\ last' = OpT("renameNode:return", "", nodeId, <<>>, FALSE, 0)
                   /\ UNCHANGED <<tasks, notifications>>
              ELSE IF ~validateFileName(Chars(newName))
              THEN /\ notifications' = notifications \cup {invalid}
                   /\ tasks' = [tasks EXCEPT ![slot] =
                                  Finish(task, FALSE, <<>>, {invalid}, steps + 1)]
                   /\ last' = OpT("renameNode:done", "invalid", nodeId, node.path,
                                  TRUE, slot)
              ELSE IF node.path = UndefPath       \* node.path.split throws
              THEN /\ notifications' = notifications \cup {thrown}
                   /\ tasks' = [tasks EXCEPT ![slot] =
                                  Finish(task, FALSE, <<>>, {thrown}, steps + 1)]
                   /\ last' = OpT("renameNode:done", "failed", nodeId, node.path,
                                  TRUE, slot)
              ELSE /\ tasks' = [tasks EXCEPT ![slot] = task]
                   /\ last' = OpT("renameNode:start", "", nodeId, node.path, TRUE, slot)
                   /\ UNCHANGED notifications
           /\ UNCHANGED <<storeVars, cache, cacheExpiry, now, fs>>

RenameNodeDone ==
    \E slot \in Slots, ok \in BOOLEAN :
        LET task == tasks[slot]
            newPath == renamedPath(task.node, task.name)
            node == renamedNode(task.node, task.name, now)
            note == IF ok THEN <<"success", "renamed">>     \* '重命名成功'
                          ELSE <<"error", "rename file">>   \* '重命名文件'
        IN /\ task.kind = "renameNode" /\ task.pc = "gateway"
           /\ ok => CanRename(fs, task.path, newPath)
           /\ IF ok
              THEN /\ fs' = gatewayRename(fs, task.path, newPath)
                   /\ SetCache(cacheAfterRename(Cache, task.node, task.name))
                   /\ SetStore(addNode(removeNode(Store, task.id), node))
              ELSE UNCHANGED <<fs, cache, cacheExpiry, storeVars>>
           /\ notifications' = notifications \cup {note}
           /\ tasks' = [tasks EXCEPT ![slot] =
                           Finish(task, ok, IF ok THEN <<node>> ELSE <<>>, {note}, steps)]
           /\ last' = OpT("renameNode:done", IF ok THEN "ok" ELSE "failed",
                          task.id, newPath, Has(nodes, task.id), slot)
           /\ UNCHANGED <<now, steps>>

\* a watch event reaches the store between the steps of the hook's calls
HookEvents ==
    {Event("deleted", PD, UndefPath, FALSE), Event("deleted", P, UndefPath, FALSE),
     Event("created", PG, UndefPath, TRUE)}

WatchEventArrives ==
    \E event \in HookEvents :
        /\ steps < MaxCalls
        /\ steps' = steps + 1
        /\ SetStore(handleFileWatchEvent(Store, event))
        /\ last' = Op("handleFileWatchEvent", event.type, EventNodeId(event),
                      event.path, Has(nodes, EventNodeId(event)))
        /\ UNCHANGED <<cache, cacheExpiry, now, fs, notifications, tasks>>

NextHook ==
    \/ LoadDirectoryStart
    \/ LoadDirectoryDone
    \/ RefreshAll
    \/ ExpandNodeStart
    \/ ExpandNodeDone
    \/ CreateFileStart
    \/ CreateFileDone
    \/ DeleteNodeStart
    \/ DeleteNodeDone
    \/ RenameNodeStart
    \/ RenameNodeDone
    \/ WatchEventArrives

SpecHook == InitHook /\ [][NextHook]_vars

----------------------------------------------------------------------------
\* Claims about the store

\* whether the parent chain of node x leads to node target
RECURSIVE LeadsTo(_, _, _, _)
LeadsTo(m, x, target, fuel) ==
    /\ fuel > 0
    /\ Has(m, x)
    /\ m[x].parent # NoId
    /\ \/ m[x].parent = target
       \/ LeadsTo(m, m[x].parent, target, fuel - 1)

Descendants(m, target) ==
    {x \in DOMAIN m : LeadsTo(m, x, target, Cardinality(DOMAIN m))}

\* C1: for a node N of the table and the set D of the nodes whose parent chain
\* leads to N, removeNode(N.id) leaves no node of {N} \cup D in the table and
\* leaves every other node in the table, unchanged.
C1_CascadingDelete ==
    [][(last'.op = "removeNode" /\ Has(nodes, last'.id)) =>
         LET gone == {last'.id} \cup Descendants(nodes, last'.id)
         IN /\ \A x \in gone : ~Has(nodes', x)
            /\ \A x \in DOMAIN nodes \ gone : Has(nodes', x) /\ nodes'[x] = nodes[x]]_vars

----------------------------------------------------------------------------
\* The sort specification: sortNodes over one directory's child list

Sibling(name, type, size, lastModified) ==
    [UndefNode EXCEPT
        !.id = generateNodeId(<<"p", name>>), !.name = name, !.path = <<"p", name>>,
        !.type = type, !.size = size, !.lastModified = lastModified,
        !.depth = 1, !.parent = generateNodeId(P),
        !.hasChildren = (type = "directory"),
        !.isExpanded = "false", !.isLoading = "false"]

Siblings ==
    {Sibling("z", "directory", 0, 3), Sibling("y", "directory", -1, 1),
     Sibling("a", "file", 5, 2), Sibling("b", "file", 20, 1),
     Sibling("file10", "file", 5, -1)}

\* the lists without repetition of at most MaxSiblings siblings
SiblingLists ==
    UNION {{l \in [1..n -> Siblings] : \A i, j \in 1..n : l[i] = l[j] => i = j}
           : n \in 1..MaxSiblings}

InitSort ==
    \E children \in SiblingLists :
        LET S == setNodes(initialState,
                          <<[MockRoot EXCEPT !.children = children]>> \o children)
        IN /\ nodes = S.nodes
           /\ rootPaths = S.rootPaths
           /\ selectedNodes = S.selectedNodes
           /\ expandedNodes = S.expandedNodes
           /\ loadingNodes = S.loadingNodes
           /\ searchQuery = S.searchQuery
           /\ filteredNodes = S.filteredNodes
           /\ config = S.config
           /\ cache = <<>> /\ cacheExpiry = <<>> /\ now = 0
           /\ fs = {} /\ notifications = {} /\ tasks = <<>>
           /\ steps = 0
           /\ last = Op("init", "", NoId, <<>>, FALSE)

SortNodes ==
    \E sortBy \in {"name", "type", "size", "modified"}, sortOrder \in {"asc", "desc"} :
        /\ SetStore(sortNodes(Store, sortBy, sortOrder))
        /\ last' = Op("sortNodes", sortBy, NoId, <<>>, FALSE)
        /\ UNCHANGED <<cache, cacheExpiry, now, fs, notifications, tasks, steps>>

NextSort == SortNodes

SpecSort == InitSort /\ [][NextSort]_vars

\* every directory of the list stands before every file of the list
DirectoriesFirst(list) ==
    \A i, j \in 1..Len(list) :
        (list[i].type = "directory" /\ list[j].type = "file") => i < j

\* C2: after sort(sortBy, sortOrder), for every sort key and both orders, in
\* each sibling list every directory node precedes every file node.
C2_DirectoriesFirst ==
    last.op = "sortNodes" =>
        \A id \in DOMAIN nodes : DirectoriesFirst(nodes[id].children)

----------------------------------------------------------------------------
\* The batch specification (fileTreeService.deleteMultipleNodes): one delete
\* per input node, all started by the call, each with the attempts of
\* fileOperationService.withRetry.  tasks[0] is the call, tasks[i] the delete of
\* the i-th input node.

maxRetries == 3

BatchNode(path) ==
    [UndefNode EXCEPT !.id = generateNodeId(path), !.name = Last(path),
        !.path = path, !.type = IF IsDir(path) THEN "directory" ELSE "file",
        !.depth = Len(Front(path)), !.parent = generateNodeId(Front(path)),
        !.hasChildren = IsDir(path), !.isExpanded = "false", !.isLoading = "false"]
BatchNodes == {BatchNode(PD), BatchNode(PDF), BatchNode(PG)}
RECURSIVE SeqsUpTo(_, _)
SeqsUpTo(S, n) ==
    IF n = 0 THEN {<<>>}
    ELSE LET shorter == SeqsUpTo(S, n - 1)
         IN shorter \cup {Append(q, x) : q \in shorter, x \in S}

BatchCall(input) ==
    [kind |-> "deleteMultipleNodes", pc |-> "waiting", input |-> input,
     successful |-> <<>>, failed |-> <<>>]
\* attempt: the attempt of withRetry; calls: the gateway calls made; deleted:
\* the gateway has deleted the entry
Job(node) ==
    [kind |-> "deleteNode", pc |-> "gateway", node |-> node, attempt |-> 1,
     calls |-> 1, deleted |-> FALSE]

\* the callback of nodes.map once deleteNode has returned success
\* (a faulty variant first: a failure is not recorded)
settle_DropsFailed(call, node, success) ==
    IF success THEN [call EXCEPT !.successful = Append(@, node)] ELSE call
settle(call, node, success) ==
    IF success
    THEN [call EXCEPT !.successful = Append(@, node)]
    ELSE [call EXCEPT !.failed = Append(@, [node |-> node, error |-> "delete failed"])]

InitBatch ==
    /\ nodes = initialState.nodes
    /\ rootPaths = initialState.rootPaths
    /\ selectedNodes = initialState.selectedNodes
    /\ expandedNodes = initialState.expandedNodes
    /\ loadingNodes = initialState.loadingNodes
    /\ searchQuery = initialState.searchQuery
    /\ filteredNodes = initialState.filteredNodes
    /\ config = initialState.config
    /\ cache = <<>> /\ cacheExpiry = <<>> /\ now = 0
    /\ fs = HookFiles
    /\ notifications = {}
    /\ tasks = <<>>
    /\ steps = 0
    /\ last = Op("init", "", NoId, <<>>, FALSE)

BatchIdle == IF 0 \in DOMAIN tasks THEN tasks[0].pc = "done" ELSE TRUE

DeleteMultipleNodes ==
    \E input \in SeqsUpTo(BatchNodes, MaxBatch) :
        /\ BatchIdle
        /\ steps < MaxBatches
        /\ steps' = steps + 1
        /\ tasks' = [i \in 0..Len(input) |->
                       IF i = 0 THEN BatchCall(input) ELSE Job(input[i])]
        /\ last' = Op("deleteMultipleNodes:start", "", NoId, <<>>, FALSE)
        /\ UNCHANGED <<storeVars, cache, cacheExpiry, now, fs, notifications>>

\* the gateway answers the delete of the i-th node
GatewayDelete ==
    \E i \in DOMAIN tasks \ {0}, ok \in BOOLEAN :
        LET job == tasks[i]
            giveUp == job.attempt = maxRetries
            note == IF ok THEN <<"success", "deleted">>     \* '删除成功'
                          ELSE <<"error", "delete file">>   \* '删除文件'
        IN /\ job.pc = "gateway"
           /\ ok => CanDelete(fs, job.node.path)
           /\ IF ok
              THEN /\ fs' = gatewayDelete(fs, job.node.path)
                   /\ SetCache(cacheAfterDelete(Cache, job.node))
                   /\ notifications' = notifications \cup {note}
                   /\ tasks' = [tasks EXCEPT
                                  ![i] = [job EXCEPT !.pc = "done", !.deleted = TRUE],
                                  ![0] = settle(@, job.node, TRUE)]
              ELSE IF giveUp
              THEN /\ notifications' = notifications \cup {note}
                   /\ tasks' = [tasks EXCEPT
                                  ![i] = [job EXCEPT !.pc = "done"],
                                  ![0] = settle(@, job.node, FALSE)]
                   /\ UNCHANGED <<fs, cache, cacheExpiry>>
              ELSE /\ tasks' = [tasks EXCEPT ![i] = [job EXCEPT !.pc = "delay"]]
                   /\ UNCHANGED <<fs, cache, cacheExpiry, notifications>>
           /\ last' = OpT("deleteNode:gateway", IF ok THEN "ok" ELSE "failed",
                          job.node.id, job.node.path, FALSE, i)
           /\ UNCHANGED <<storeVars, now, steps>>

\* the timer of withRetry fires: the next attempt calls the gateway
RetryDelete ==
    \E i \in DOMAIN tasks \ {0} :
        /\ tasks[i].pc = "delay"
        /\ tasks' = [tasks EXCEPT ![i] = [@ EXCEPT !.pc = "gateway",
                                                   !.attempt = @ + 1,
                                                   !.calls = @ + 1]]
        /\ last' = OpT("deleteNode:retry", "", tasks[i].node.id, tasks[i].node.path,
                       FALSE, i)
        /\ UNCHANGED <<storeVars, cache, cacheExpiry, now, fs, notifications, steps>>

\* Promise.all resolves: the summary notifications, then the result is returned
DeleteMultipleNodesDone ==
    /\ 0 \in DOMAIN tasks /\ tasks[0].pc = "waiting"
    /\ \A i \in DOMAIN tasks \ {0} : tasks[i].pc = "done"
    /\ tasks' = [tasks EXCEPT ![0].pc = "done"]
    /\ notifications' = notifications
          \cup (IF Len(tasks[0].successful) > 0
                THEN {<<"success", "batch delete done">>} ELSE {})   \* '批量删除完成'
          \cup (IF Len(tasks[0].failed) > 0
                THEN {<<"error", "some deletes failed">>} ELSE {})   \* '部分删除失败'
    /\ last' = Op("deleteMultipleNodes:done", "", NoId, <<>>, FALSE)
    /\ UNCHANGED <<storeVars, cache, cacheExpiry, now, fs, steps>>

NextBatch ==
    \/ DeleteMultipleNodes
    \/ GatewayDelete
    \/ RetryDelete
    \/ DeleteMultipleNodesDone

SpecBatch == InitBatch /\ [][NextBatch]_vars

----------------------------------------------------------------------------
\* Claims about the hook

NodeIds(list) == {list[i].id : i \in 1..Len(list)}
LoadKinds == {"loadDirectory", "expandNode"}
\* call b was made while call a was in flight
Overlap(a, b) == a.startedAt < b.startedAt /\ a.endedAt >= b.startedAt

\* C3: when the read of expandNode returns and the node is no longer in the
\* table, nothing is applied: the node stays absent, no loaded child is
\* inserted, the id does not enter the expansion set
C3_ExpandAfterRemove ==
    [][(/\ last'.op = "expandNode:done"
        /\ tasks[last'.slot].pc = "gateway"
        /\ ~Has(nodes, last'.id))
       => /\ ~Has(nodes', last'.id)
          /\ \A x \in NodeIds(tasks'[last'.slot].result) :
                Has(nodes', x) => Has(nodes, x) /\ nodes'[x] = nodes[x]
          /\ ~Contains(expandedNodes', last'.id)]_vars

\* C4: when the result of a load is applied and a load of another directory,
\* in flight at the same time, has been applied before, the nodes of that
\* other result which are in the table and outside the loaded directory stay
C4_ConcurrentLoadsKeepNodes ==
    [][\A j \in Slots :
        (/\ last'.op \in {"loadDirectory:done", "expandNode:done"}
         /\ last'.kind = "ok"
         /\ j # last'.slot
         /\ tasks[j].kind \in LoadKinds /\ tasks[j].pc = "done" /\ tasks[j].ok
         /\ tasks[j].path # last'.path
         /\ \/ Overlap(tasks[j], tasks'[last'.slot])
            \/ Overlap(tasks'[last'.slot], tasks[j]))
        => \A i \in 1..Len(tasks[j].result) :
              LET n == tasks[j].result[i]
              IN (Has(nodes, n.id) /\ ~Under(n.path, last'.path))
                 => Has(nodes', n.id)]_vars

\* C6: the parent reference of a node, if present, is the id of a node of the
\* table
C6_ParentInTable ==
    \A id \in DOMAIN nodes :
        nodes[id].parent # NoId => Has(nodes, nodes[id].parent)

\* C7: a root node has depth 0, and a node whose parent is in the table has
\* the depth of its parent + 1
C7_DepthOfParentPlusOne ==
    \A id \in DOMAIN nodes :
        /\ Contains(rootPaths, nodes[id].path) => nodes[id].depth = 0
        /\ (nodes[id].parent # NoId /\ Has(nodes, nodes[id].parent))
              => nodes[id].depth = nodes[nodes[id].parent].depth + 1

\* C8: when the read of expandNode fails, the node ends outside the expansion
\* set and outside the loading set, and an error has been notified
C8_FailedExpandStaysCollapsed ==
    [][(last'.op = "expandNode:done" /\ last'.kind = "failed")
       => /\ ~Contains(expandedNodes', last'.id)
          /\ ~Contains(loadingNodes', last'.id)
          /\ \E n \in notifications' : n[1] = "error"]_vars

----------------------------------------------------------------------------
\* Claims about the batch delete

Count(list, x) == Cardinality({i \in 1..Len(list) : list[i] = x})
FailedNodes(call) == [i \in 1..Len(call.failed) |-> call.failed[i].node]

\* C10: when deleteMultipleNodes returns, the gateway has been called for
\* every input node; every input node is once in successful if the gateway
\* deleted it and once in failed otherwise; what was deleted stays deleted
C10_BatchDeletePartition ==
    (0 \in DOMAIN tasks /\ tasks[0].pc = "done") =>
        LET call == tasks[0]
            jobs == DOMAIN tasks \ {0}
        IN /\ \A i \in jobs : tasks[i].calls >= 1
           /\ Len(call.successful) + Len(call.failed) = Len(call.input)
           /\ \A node \in Range(call.input) :
                 /\ Count(call.successful, node)
                      = Cardinality({i \in jobs : tasks[i].node = node
                                                  /\ tasks[i].deleted})
                 /\ Count(FailedNodes(call), node)
                      = Cardinality({i \in jobs : tasks[i].node = node
                                                  /\ ~tasks[i].deleted})
           /\ \A i \in jobs : tasks[i].deleted => tasks[i].node.path \notin fs
C10_Witness ==
    /\ 0 \in DOMAIN tasks /\ tasks[0].pc = "done"
    /\ Len(tasks[0].input) = 2
    /\ Len(tasks[0].successful) = 1 /\ Len(tasks[0].failed) = 1
    /\ tasks[0].successful[1] = tasks[0].input[2]
    /\ \E i \in DOMAIN tasks \ {0} : tasks[i].attempt = maxRetries

----------------------------------------------------------------------------
\* The cache specification: the cache of the tree service under a clock.
\* tasks maps a path to the nodes and the time of its last setCachedNodes, as
\* long as no clearCache / clearAllCache has followed.

InitCache ==
    /\ nodes = initialState.nodes
    /\ rootPaths = initialState.rootPaths
    /\ selectedNodes = initialState.selectedNodes
    /\ expandedNodes = initialState.expandedNodes
    /\ loadingNodes = initialState.loadingNodes
    /\ searchQuery = initialState.searchQuery
    /\ filteredNodes = initialState.filteredNodes
    /\ config = initialState.config
    /\ cache = <<>> /\ cacheExpiry = <<>> /\ now = 0
    /\ fs = {} /\ notifications = {} /\ tasks = <<>>
    /\ steps = 0
    /\ last = [op |-> "init", kind |-> "", path |-> <<>>, result |-> <<>>]

CacheStep(c, written, l) ==
    /\ steps < MaxCacheSteps
    /\ steps' = steps + 1
    /\ SetCache(c)
    /\ tasks' = written
    /\ last' = l
    /\ UNCHANGED <<storeVars, now, fs, notifications>>

SetCachedNodes ==
    \E path \in {P, PD}, list \in {<<>>, <<MockFile>>} :
        CacheStep(setCachedNodes(Cache, path, list, now),
                  [k \in DOMAIN tasks \cup {path} |->
                      IF k = path THEN [nodes |-> list, at |-> now] ELSE tasks[k]],
                  [op |-> "setCachedNodes", kind |-> "", path |-> path,
                   result |-> <<>>])

GetCachedNodes ==
    \E path \in {P, PD} :
        LET got == getCachedNodes(Cache, path, now)
        IN CacheStep(got.cache, tasks,
                     [op |-> "getCachedNodes",
                      kind |-> IF got.hit THEN "hit" ELSE "miss",
                      path |-> path, result |-> got.result])

ClearCache ==
    \E path \in {P, PD} :
        CacheStep(clearCache(Cache, path),
                  [k \in DOMAIN tasks \ {path} |-> tasks[k]],
                  [op |-> "clearCache", kind |-> "", path |-> path, result |-> <<>>])

ClearAllCache ==
    CacheStep(clearAllCache, <<>>,
              [op |-> "clearAllCache", kind |-> "", path |-> <<>>, result |-> <<>>])

\* Date.now() moves on
Tick ==
    \E d \in {1, CACHE_DURATION} :
        /\ steps < MaxCacheSteps
        /\ steps' = steps + 1
        /\ now' = now + d
        /\ last' = [op |-> "tick", kind |-> "", path |-> <<>>, result |-> <<>>]
        /\ UNCHANGED <<storeVars, cache, cacheExpiry, fs, notifications, tasks>>

NextCache ==
    \/ SetCachedNodes
    \/ GetCachedNodes
    \/ ClearCache
    \/ ClearAllCache
    \/ Tick

SpecCache == InitCache /\ [][NextCache]_vars

\* C11: a get of a path set at time t and not invalidated since returns the
\* nodes set when the clock is at most t + 5 minutes, and a miss when it is
\* later; every get removes the entries whose expiry time has passed
C11_CacheTTL ==
    [][(last'.op = "getCachedNodes")
       => /\ last'.path \in DOMAIN tasks
              => LET written == tasks[last'.path]
                 IN IF now <= written.at + 5 * 60 * 1000
                    THEN last'.kind = "hit" /\ last'.result = written.nodes
                    ELSE last'.kind = "miss"
          /\ \A k \in DOMAIN cacheExpiry :
                now > cacheExpiry[k]
                   => k \notin DOMAIN cache' /\ k \notin DOMAIN cacheExpiry']_vars
C11_Witness ==
    /\ last.op = "getCachedNodes" /\ last.kind = "miss"
    /\ last.path \in DOMAIN tasks
    /\ now = tasks[last.path].at + 5 * 60 * 1000 + 1

----------------------------------------------------------------------------
\* The validation specification: validateFileName applied to a name

MaxNameLen == 3
NameAlphabet == {"C", "o", "n", " ", "*", "a"}
OtherNames ==
    {<<"p", "r", "n">>, <<"A", "U", "X">>, <<"n", "U", "l">>,
     <<"C", "O", "M", "1">>, <<"c", "o", "m", "9">>, <<"C", "O", "M", "0">>,
     <<"C", "O", "M", "1", "0">>, <<"L", "P", "T", "1">>, <<"l", "p", "t", "9">>,
     <<"L", "P", "T">>, <<"C", "O", "N", ".", "t">>, <<"\t">>, <<"\t", "\n">>,
     <<"a", " ", "b", ".", "t">>, <<".", "h">>}
    \cup {<<c>> : c \in invalidChars}
    \cup {<<"a", c, "b", "c">> : c \in invalidChars}
    \cup {Repeat("x", 255), Repeat("x", 256)}
Names == SeqsUpTo(NameAlphabet, MaxNameLen) \cup OtherNames

InitValidate ==
    /\ nodes = initialState.nodes
    /\ rootPaths = initialState.rootPaths
    /\ selectedNodes = initialState.selectedNodes
    /\ expandedNodes = initialState.expandedNodes
    /\ loadingNodes = initialState.loadingNodes
    /\ searchQuery = initialState.searchQuery
    /\ filteredNodes = initialState.filteredNodes
    /\ config = initialState.config
    /\ cache = <<>> /\ cacheExpiry = <<>> /\ now = 0
    /\ fs = {} /\ notifications = {} /\ tasks = <<>>
    /\ steps = 0
    /\ last \in {[op |-> "input", name |-> name, valid |-> FALSE] : name \in Names}

ValidateFileName ==
    /\ last.op = "input"
    /\ last' = [op |-> "validateFileName", name |-> last.name,
                valid |-> validateFileName(last.name)]
    /\ UNCHANGED <<storeVars, serviceVars, tasks, steps>>

NextValidate == ValidateFileName

SpecValidate == InitValidate /\ [][NextValidate]_vars

\* a name is empty or whitespace-only, holds a forbidden character, is a
\* reserved device name in any case, or is longer than 255 characters
C20_IsWhiteSpaceOnly(name) == \A i \in 1..Len(name) : name[i] \in WhiteSpace
C20_SameLetter(c, u) ==
    c = u \/ \E k \in 1..Len(UpperCase) : UpperCase[k] = u /\ LowerCase[k] = c
C20_IsReserved(name) ==
    \E r \in {<<"C", "O", "N">>, <<"P", "R", "N">>, <<"A", "U", "X">>,
              <<"N", "U", "L">>}
             \cup {<<"C", "O", "M", d>> : d \in {"1", "2", "3", "4", "5", "6", "7",
                                                 "8", "9"}}
             \cup {<<"L", "P", "T", d>> : d \in {"1", "2", "3", "4", "5", "6", "7",
                                                 "8", "9"}} :
        Len(r) = Len(name) /\ \A i \in 1..Len(r) : C20_SameLetter(name[i], r[i])
C20_IsInvalid(name) ==
    \/ C20_IsWhiteSpaceOnly(name)
    \/ \E i \in 1..Len(name) :
          name[i] \in {"<", ">", ":", "\"", "/", "\\", "|", "?", "*"}
    \/ C20_IsReserved(name)
    \/ Len(name) > 255

----------------------------------------------------------------------------
\* Further claims about the store

\* C12: expandNode and toggleNode of the store, applied to a file node of the
\* table, leave the expansion set as it was
C12_ExpandOnlyDirectories ==
    [][(/\ last'.op \in {"expandNode", "toggleNode"}
        /\ Has(nodes, last'.id)
        /\ nodes[last'.id].type = "file")
       => expandedNodes' = expandedNodes]_vars

\* C13: updateNode, called directly or through setLoading, with an id that is
\* not in the table leaves the table as it was
C13_UpdateAbsentIsNoOp ==
    [][(last'.op \in {"updateNode", "setLoading"} /\ ~Has(nodes, last'.id))
       => nodes' = nodes]_vars

\* C14: the root-path list holds the paths of the depth-0 nodes of the table,
\* each once, and nothing else
C14_RootPathsOnce ==
    LET rootNodePaths == {nodes[id].path : id \in {k \in DOMAIN nodes :
                                                     nodes[k].depth = 0}}
    IN /\ Range(rootPaths) = rootNodePaths
       /\ \A path \in rootNodePaths : Count(rootPaths, path) = 1

\* C15: removeNode(id) takes id out of the selection, expansion and loading
\* sets and, for a depth-0 node, its path out of the root-path list; the
\* other ids that stay in the table are in those sets as before
C15_RemovePurgesSets ==
    [][(last'.op = "removeNode")
       => LET id == last'.id
          IN /\ ~Contains(selectedNodes', id)
             /\ ~Contains(expandedNodes', id)
             /\ ~Contains(loadingNodes', id)
             /\ (Has(nodes, id) /\ nodes[id].depth = 0)
                   => ~Contains(rootPaths', nodes[id].path)
             /\ \A x \in (StoreIds \ {id}) :
                   (Has(nodes, x) => Has(nodes', x))
                   => /\ Contains(selectedNodes', x) <=> Contains(selectedNodes, x)
                      /\ Contains(expandedNodes', x) <=> Contains(expandedNodes, x)
                      /\ Contains(loadingNodes', x) <=> Contains(loadingNodes, x)]_vars
C15_Witness ==
    /\ last.op = "removeNode" /\ last.present /\ last.kind = "selected"
    /\ ~Has(nodes, last.id)
    /\ ~Contains(selectedNodes, last.id)
    /\ rootPaths = <<>>

\* C16: after setSearchQuery(q) the stored query is q and the filtered ids are
\* the ids of the nodes whose name holds q in any case, each once; none for
\* the empty query
C16_NameHolds(name, q) ==
    name # "undefined" /\ includes(toLowerCase(Chars(name)), toLowerCase(Chars(q)))
C16_SearchFilter ==
    [][(last'.op = "setSearchQuery")
       => LET q == last'.kind
          IN /\ searchQuery' = q
             /\ Range(filteredNodes')
                  = IF q = "" THEN {}
                    ELSE {id \in DOMAIN nodes' : C16_NameHolds(nodes'[id].name, q)}
             /\ \A x \in Range(filteredNodes') : Count(filteredNodes', x) = 1]_vars

\* C17: selectNode(id, true) flips whether id is selected and leaves the other
\* ids as they were, so that a second call gives the first selection back;
\* selectNode(id, false) leaves exactly id selected
C17_SelectToggle ==
    [][(last'.op = "selectNode")
       => LET id == last'.id
          IN IF last'.kind = "multi"
             THEN /\ Contains(selectedNodes', id) <=> ~Contains(selectedNodes, id)
                  /\ \A x \in (Range(selectedNodes) \cup Range(selectedNodes')) \ {id} :
                        Contains(selectedNodes', x) <=> Contains(selectedNodes, x)
                  /\ Range(selectNodeInStore(Store', id, TRUE).selectedNodes)
                        = Range(selectedNodes)
             ELSE selectedNodes' = <<id>>]_vars
C17_Witness ==
    /\ last.op = "selectNode" /\ last.kind = "multi"
    /\ ~Contains(selectedNodes, last.id)
    /\ Len(selectedNodes) = 1

\* C18: after setLoading(id, b) on a node of the table, id is in the loading
\* set exactly when b, at most once, and the node's isLoading is b
C18_SetLoading ==
    [][(last'.op = "setLoading" /\ Has(nodes, last'.id))
       => LET id == last'.id
              b == last'.kind = "true"
          IN /\ Contains(loadingNodes', id) <=> b
             /\ Count(loadingNodes', id) <= 1
             /\ Has(nodes', id)
             /\ nodes'[id].isLoading = (IF b THEN "true" ELSE "false")]_vars
C18_Witness ==
    /\ last.op = "setLoading" /\ last.kind = "true" /\ last.present
    /\ Count(loadingNodes, last.id) = 1
    /\ Has(nodes, last.id) /\ nodes[last.id].isLoading = "true"
    /\ nodes[last.id].name # "undefined"

----------------------------------------------------------------------------
\* Further claims about the hook

\* C19: a createFile or renameNode call whose name is not a valid file name
\* ends in the step that starts it: no gateway call, file system and cache as
\* before, an error notified, nothing returned and the store as before
C19_InvalidNameStopsCall ==
    [][(/\ steps' = steps + 1
        /\ last'.op \in {"createFile:start", "createFile:done",
                         "renameNode:start", "renameNode:done"}
        /\ C20_IsInvalid(Chars(tasks'[last'.slot].name)))
       => LET task == tasks'[last'.slot]
          IN /\ task.pc = "done" /\ ~task.ok /\ task.result = <<>>
             /\ fs' = fs /\ cache' = cache /\ cacheExpiry' = cacheExpiry
             /\ \E n \in task.notes : n[1] = "error" /\ n \in notifications'
             /\ UNCHANGED storeVars]_vars
C19_Witness ==
    /\ last.op = "renameNode:done" /\ last.kind = "invalid" /\ last.present
    /\ tasks[last.slot].name = "con"
    /\ <<"error", "invalid file name">> \in notifications
    /\ Has(nodes, last.id)
    /\ cache # <<>>

----------------------------------------------------------------------------
\* The id specification: generateNodeId applied to the characters of two paths

\* characters of a file name below the root
MaxIdLen == 6

\* the printable ASCII characters, code 32 to 126 (the grave accent, code 96,
\* is written out: no path of the model holds it)
Digits == <<"0", "1", "2", "3", "4", "5", "6", "7", "8", "9">>
Ascii ==
    <<" ", "!", "\"", "#", "$", "%", "&", "'", "(", ")", "*", "+", ",", "-", ".", "/">>
    \o Digits \o <<":", ";", "<", "=", ">", "?", "@">>
    \o UpperCase \o <<"[", "\\", "]", "^", "_", "grave accent">>
    \o LowerCase \o <<"{", "|", "}", "~">>
HexDigits == Digits \o <<"A", "B", "C", "D", "E", "F">>
Base64Alphabet == UpperCase \o LowerCase \o Digits \o <<"+", "/">>

\* String.prototype.charCodeAt(0) of an ASCII character
charCodeAt(c) == 31 + (CHOOSE i \in 1..Len(Ascii) : Ascii[i] = c)

\* the characters encodeURIComponent leaves as they are
Unreserved ==
    Range(UpperCase) \cup Range(LowerCase) \cup Range(Digits)
    \cup {"-", "_", ".", "!", "~", "*", "'", "(", ")"}

\* encodeURIComponent of a string of ASCII characters: every other character
\* becomes % and the two hexadecimal digits of its code
RECURSIVE encodeURIComponent(_)
encodeURIComponent(chars) ==
    IF chars = <<>> THEN <<>>
    ELSE LET c == Head(chars)
             escaped == IF c \in Unreserved THEN <<c>>
                        ELSE <<"%", HexDigits[(charCodeAt(c) \div 16) + 1],
                               HexDigits[(charCodeAt(c) % 16) + 1]>>
         IN escaped \o encodeURIComponent(Tail(chars))

\* btoa: three bytes become four characters of the base64 alphabet, a last
\* group of one or two bytes is padded with =
RECURSIVE btoa(_)
btoa(chars) ==
    IF chars = <<>> THEN <<>>
    ELSE LET n == Len(chars)
             b1 == charCodeAt(chars[1])
             b2 == IF n >= 2 THEN charCodeAt(chars[2]) ELSE 0
             b3 == IF n >= 3 THEN charCodeAt(chars[3]) ELSE 0
             group == <<Base64Alphabet[(b1 \div 4) + 1],
                        Base64Alphabet[(b1 % 4) * 16 + (b2 \div 16) + 1],
                        IF n >= 2 THEN Base64Alphabet[(b2 % 16) * 4 + (b3 \div 64) + 1]
                        ELSE "=",
                        IF n >= 3 THEN Base64Alphabet[(b3 % 64) + 1] ELSE "=">>
         IN group \o btoa(SubSeq(chars, 4, n))

\* btoa(encodeURIComponent(path)).replace(/[+/=]/g, '') on the characters of path
generateNodeIdString(chars) ==
    SelectSeq(btoa(encodeURIComponent(chars)), LAMBDA c : c \notin {"+", "/", "="})

\* the paths "/name" of the files of the root directory whose names have up
\* to MaxIdLen characters of IdAlphabet, and some paths of other shapes
IdAlphabet == {"U", "~"}
OtherIdPaths ==
    {<<"/", "p">>, <<"/", "p", "/", "d">>, <<"/", "p", "/", "f">>,
     <<"/", "x", "y", "~", "a", "d">>, <<"/", "x", "y", "X", "Y">>,
     <<"/", "a", " ", "b", ".", "t">>, <<"C", ":", "\\", "a">>, <<"/", ">", "?">>}
IdPaths ==
    {<<"/">> \o name : name \in SeqsUpTo(IdAlphabet, MaxIdLen) \ {<<>>}}
    \cup OtherIdPaths

InitId ==
    /\ nodes = initialState.nodes
    /\ rootPaths = initialState.rootPaths
    /\ selectedNodes = initialState.selectedNodes
    /\ expandedNodes = initialState.expandedNodes
    /\ loadingNodes = initialState.loadingNodes
    /\ searchQuery = initialState.searchQuery
    /\ filteredNodes = initialState.filteredNodes
    /\ config = initialState.config
    /\ cache = <<>> /\ cacheExpiry = <<>> /\ now = 0
    /\ fs = {} /\ notifications = {} /\ tasks = <<>>
    /\ steps = 0
    /\ last \in {[op |-> "input", path |-> path, other |-> other,
                  id |-> <<>>, otherId |-> <<>>] : path \in IdPaths, other \in IdPaths}

\* generateNodeId is called for two paths
GenerateNodeId ==
    /\ last.op = "input"
    /\ last' = [last EXCEPT !.op = "generateNodeId",
                            !.id = generateNodeIdString(last.path),
                            !.otherId = generateNodeIdString(last.other)]
    /\ UNCHANGED <<storeVars, serviceVars, tasks, steps>>

NextId == GenerateNodeId

SpecId == InitId /\ [][NextId]_vars

\* C21: the same path gives the same id, two different paths give different
\* ids, and an id holds no path separator
C21_IdInjective ==
    last.op = "generateNodeId"
       => /\ (last.path = last.other <=> last.id = last.otherId)
          /\ ~Contains(last.id, "/") /\ ~Contains(last.id, "\\")

----------------------------------------------------------------------------
\* The retry specification (fileOperationService): calls of createItem,
\* deleteItem and readDirectory, each running its gateway operation under
\* withRetry.  tasks[i] is the i-th call; outcomes lists what its attempts gave.

\* calls started in one behaviour of the retry specification
MaxRetryCalls == 2

RetryRequests ==
    {[op |-> "createItem", path |-> P, name |-> "g"],
     [op |-> "deleteItem", path |-> PF, name |-> ""],
     [op |-> "readDirectory", path |-> P, name |-> ""]}

\* the main process can answer the request with success
CanAnswer(files, request) ==
    CASE request.op = "createItem" -> CanCreate(files, request.path, request.name)
      [] request.op = "deleteItem" -> CanDelete(files, request.path)
      [] request.op = "readDirectory" -> CanRead(files, request.path)
\* the file system after the request has succeeded
gatewayAnswer(files, request) ==
    CASE request.op = "createItem" -> gatewayCreate(files, request.path, request.name)
      [] request.op = "deleteItem" -> gatewayDelete(files, request.path)
      [] request.op = "readDirectory" -> files

\* withRetry after the attempt-th call of operation(): the value is returned,
\* the error of the last attempt is thrown, or the timer of the next attempt
\* is awaited
\* (a faulty variant first: the loop gives up one attempt early)
withRetry_GivesUpEarly(attempt, threw) ==
    IF ~threw THEN "returned"
    ELSE IF attempt = maxRetries - 1 THEN "thrown" ELSE "delay"
withRetry(attempt, threw) ==
    IF ~threw THEN "returned"
    ELSE IF attempt = maxRetries THEN "thrown" ELSE "delay"

InitRetry ==
    /\ nodes = initialState.nodes
    /\ rootPaths = initialState.rootPaths
    /\ selectedNodes = initialState.selectedNodes
    /\ expandedNodes = initialState.expandedNodes
    /\ loadingNodes = initialState.loadingNodes
    /\ searchQuery = initialState.searchQuery
    /\ filteredNodes = initialState.filteredNodes
    /\ config = initialState.config
    /\ cache = <<>> /\ cacheExpiry = <<>> /\ now = 0
    /\ fs = HookFiles
    /\ notifications = {}
    /\ tasks = <<>>
    /\ steps = 0
    /\ last = [op |-> "init", slot |-> 0]

\* createItem / deleteItem / readDirectory is called: checkElectronAPI throws
\* when window.electronAPI is not there, else the first attempt calls the gateway
RetryCall ==
    \E request \in RetryRequests, electronAPI \in BOOLEAN :
        /\ steps < MaxRetryCalls
        /\ steps' = steps + 1
        /\ tasks' = Append(tasks,
              [request |-> request, issued |-> electronAPI,
               pc |-> IF electronAPI THEN "gateway" ELSE "thrown",
               attempt |-> IF electronAPI THEN 1 ELSE 0,
               outcomes |-> <<>>])
        /\ last' = [op |-> request.op, slot |-> Len(tasks) + 1]
        /\ UNCHANGED <<storeVars, serviceVars>>

\* the gateway answers the attempt of the i-th call: a result with success, or
\* a rejection or a result with an error, which operation() throws
GatewayAnswers(i) ==
    \E ok \in BOOLEAN :
        /\ i \in DOMAIN tasks
        /\ tasks[i].pc = "gateway"
        /\ ok => CanAnswer(fs, tasks[i].request)
        /\ fs' = IF ok THEN gatewayAnswer(fs, tasks[i].request) ELSE fs
        /\ tasks' = [tasks EXCEPT ![i] =
              [@ EXCEPT !.pc = withRetry(tasks[i].attempt, ~ok),
                        !.outcomes = Append(@, IF ok THEN "ok" ELSE "error")]]
        /\ last' = [op |-> "gateway", slot |-> i]
        /\ UNCHANGED <<storeVars, cache, cacheExpiry, now, notifications, steps>>

\* the timer of retryDelay * attempt fires: the loop goes to the next attempt
TimerFires(i) ==
    /\ i \in DOMAIN tasks
    /\ tasks[i].pc = "delay"
    /\ tasks' = [tasks EXCEPT ![i] = [@ EXCEPT !.pc = "gateway", !.attempt = @ + 1]]
    /\ last' = [op |-> "timer", slot |-> i]
    /\ UNCHANGED <<storeVars, serviceVars, steps>>

NextRetry ==
    \/ RetryCall
    \/ \E i \in 1..MaxRetryCalls : GatewayAnswers(i)
    \/ \E i \in 1..MaxRetryCalls : TimerFires(i)

SpecRetry == InitRetry /\ [][NextRetry]_vars

\* the gateway answers every call it has received and every timer fires
SpecRetryFair ==
    /\ SpecRetry
    /\ \A i \in 1..MaxRetryCalls :
          WF_vars(GatewayAnswers(i)) /\ WF_vars(TimerFires(i))

C22_Failed(outcomes, n) == \A k \in 1..n : outcomes[k] = "error"
C22_Attempts(call) ==
    LET made == Len(call.outcomes)
    IN /\ made <= 3
       /\ \A k \in 1..made : call.outcomes[k] = "ok" => k = made /\ call.pc = "returned"
       /\ call.pc = "returned" <=> (made > 0 /\ call.outcomes[made] = "ok")
       /\ call.pc = "thrown" <=> (made = 3 /\ C22_Failed(call.outcomes, 3))
C22_Ended(i) == IF i \in DOMAIN tasks THEN tasks[i].pc \in {"returned", "thrown"} ELSE FALSE

----------------------------------------------------------------------------
\* The file service specification (main/services/fileService): the handlers
\* of 'file:create' and 'file:delete' run FileService.createFile and
\* FileService.deleteItem, the handler of 'write-file' writes a file.  Each
\* handler is an async function: its steps are the awaits of the code, and the
\* steps of the calls in flight interleave.  Here fs is a record: entries maps
\* each existing path to "directory" or to the content of the file, rimraf
\* tells whether fs.rmdir with recursive: true is the one of Node before 16
\* (it removes files too and is silent on a path that does not exist) or the
\* later one (it throws in both cases).  tasks[i] is the i-th call.

\* calls started in one behaviour of the file service specification
MaxFileCalls == 3

FileRequests ==
    {[op |-> "createFile", parentPath |-> P, path |-> PF],
     [op |-> "createFile", parentPath |-> P, path |-> PG],
     [op |-> "createFile", parentPath |-> PG, path |-> <<"p", "g", "f">>],
     [op |-> "deleteItem", parentPath |-> P, path |-> PF],
     [op |-> "deleteItem", parentPath |-> P, path |-> PG],
     [op |-> "deleteItem", parentPath |-> P, path |-> PD]}

Exists(entries, path) == path \in DOMAIN entries
IsDirectoryEntry(entries, path) ==
    IF Exists(entries, path) THEN entries[path] = "directory" ELSE FALSE
IsFileEntry(entries, path) ==
    IF Exists(entries, path) THEN entries[path] # "directory" ELSE FALSE
\* fs.writeFile(path, content) can succeed
CanWriteFile(entries, parentPath, path) ==
    IsDirectoryEntry(entries, parentPath) /\ ~IsDirectoryEntry(entries, path)
writeFile(entries, path, content) ==
    [q \in DOMAIN entries \cup {path} |-> IF q = path THEN content ELSE entries[q]]
\* fs.unlink / fs.rmdir recursive have removed the entry
removeEntry(entries, path) ==
    [q \in {r \in DOMAIN entries : r # path /\ ~Under(r, path)} |-> entries[q]]

\* checkPermissions(parentPath, 'write'): access F_OK, then W_OK (every
\* existing entry of the model is writable)
checkWritePermission(entries, parentPath) == Exists(entries, parentPath)
\* checkPermissions(itemPath, 'delete'): access F_OK of the item, then W_OK of
\* its parent directory
checkDeletePermission(entries, path) ==
    Exists(entries, path) /\ Exists(entries, Front(path))
\* checkFileExists
checkFileExists(entries, path) == Exists(entries, path)

NoResult == [success |-> FALSE, error |-> "pending"]
Failure(error) == [success |-> FALSE, error |-> error]
Success == [success |-> TRUE, error |-> ""]

FileCall(request) ==
    [op |-> request.op, parentPath |-> request.parentPath, path |-> request.path,
     pc |-> IF request.op = "createFile" THEN "checkPermissions" ELSE "checkFileExists",
     isDir |-> FALSE, result |-> NoResult]
Return(call, result) == [call EXCEPT !.pc = "done", !.result = result]

InitFiles ==
    /\ nodes = initialState.nodes
    /\ rootPaths = initialState.rootPaths
    /\ selectedNodes = initialState.selectedNodes
    /\ expandedNodes = initialState.expandedNodes
    /\ loadingNodes = initialState.loadingNodes
    /\ searchQuery = initialState.searchQuery
    /\ filteredNodes = initialState.filteredNodes
    /\ config = initialState.config
    /\ cache = <<>> /\ cacheExpiry = <<>> /\ now = 0
    /\ fs \in {[entries |-> (P :> "directory" @@ PD :> "directory" @@ PDF :> "text"
                             @@ PF :> "text"),
                rimraf |-> legacy] : legacy \in BOOLEAN}
    /\ notifications = {}
    /\ tasks = <<>>
    /\ steps = 0
    /\ last = [op |-> "init", slot |-> 0]

FileStep(i, call, entries, op) ==
    /\ tasks' = [tasks EXCEPT ![i] = call]
    /\ fs' = [fs EXCEPT !.entries = entries]
    /\ last' = [op |-> op, slot |-> i]
    /\ UNCHANGED <<storeVars, cache, cacheExpiry, now, notifications, steps>>

\* a 'file:create' or 'file:delete' request arrives
FileRequestArrives ==
    \E request \in FileRequests :
        /\ steps < MaxFileCalls
        /\ steps' = steps + 1
        /\ tasks' = Append(tasks, FileCall(request))
        /\ last' = [op |-> request.op, slot |-> Len(tasks) + 1]
        /\ UNCHANGED <<storeVars, serviceVars>>

\* the 'write-file' handler: writeFile(filePath, content, 'utf-8')
WriteFileHandler ==
    \E path \in {PF, PG} :
        /\ steps < MaxFileCalls
        /\ steps' = steps + 1
        /\ fs' = IF CanWriteFile(fs.entries, Front(path), path)
                 THEN [fs EXCEPT !.entries = writeFile(@, path, "text")]
                 ELSE fs
        /\ last' = [op |-> "write-file", slot |-> 0]
        /\ UNCHANGED <<storeVars, cache, cacheExpiry, now, notifications, tasks>>

\* createFile: await checkPermissions(parentPath, 'write')
CreateCheckPermissions(i) ==
    /\ i \in DOMAIN tasks
    /\ tasks[i].op = "createFile" /\ tasks[i].pc = "checkPermissions"
    /\ FileStep(i, IF checkWritePermission(fs.entries, tasks[i].parentPath)
                   THEN [tasks[i] EXCEPT !.pc = "checkFileExists"]
                   ELSE Return(tasks[i], Failure("no write permission")),
                fs.entries, "createFile:checkPermissions")

\* createFile: await checkFileExists(fullPath)
CreateCheckFileExists(i) ==
    /\ i \in DOMAIN tasks
    /\ tasks[i].op = "createFile" /\ tasks[i].pc = "checkFileExists"
    /\ FileStep(i, IF checkFileExists(fs.entries, tasks[i].path)
                   THEN Return(tasks[i], Failure("file exists"))     \* '文件已存在'
                   ELSE [tasks[i] EXCEPT !.pc = "writeFile"],
                fs.entries, "createFile:checkFileExists")

\* createFile: await fs.writeFile(fullPath, '', 'utf8'), then the result
CreateWriteFile(i) ==
    /\ i \in DOMAIN tasks
    /\ tasks[i].op = "createFile" /\ tasks[i].pc = "writeFile"
    /\ IF CanWriteFile(fs.entries, tasks[i].parentPath, tasks[i].path)
       THEN FileStep(i, Return(tasks[i], Success),
                     writeFile(fs.entries, tasks[i].path, ""), "createFile:writeFile")
       ELSE FileStep(i, Return(tasks[i], Failure("create failed")),  \* '创建文件失败'
                     fs.entries, "createFile:writeFile")

\* deleteItem: await checkFileExists(itemPath)
DeleteCheckFileExists(i) ==
    /\ i \in DOMAIN tasks
    /\ tasks[i].op = "deleteItem" /\ tasks[i].pc = "checkFileExists"
    /\ FileStep(i, IF checkFileExists(fs.entries, tasks[i].path)
                   THEN [tasks[i] EXCEPT !.pc = "checkPermissions"]
                   ELSE Return(tasks[i], Failure("does not exist")), \* '文件或文件夹不存在'
                fs.entries, "deleteItem:checkFileExists")

\* deleteItem: await checkPermissions(itemPath, 'delete')
DeleteCheckPermissions(i) ==
    /\ i \in DOMAIN tasks
    /\ tasks[i].op = "deleteItem" /\ tasks[i].pc = "checkPermissions"
    /\ FileStep(i, IF checkDeletePermission(fs.entries, tasks[i].path)
                   THEN [tasks[i] EXCEPT !.pc = "isDirectory"]
                   ELSE Return(tasks[i], Failure("no delete permission")),
                fs.entries, "deleteItem:checkPermissions")

\* deleteItem: await isDirectory(itemPath); a failing stat gives false
DeleteIsDirectory(i) ==
    /\ i \in DOMAIN tasks
    /\ tasks[i].op = "deleteItem" /\ tasks[i].pc = "isDirectory"
    /\ FileStep(i, [tasks[i] EXCEPT !.pc = "remove",
                                    !.isDir = IsDirectoryEntry(fs.entries, tasks[i].path)],
                fs.entries, "deleteItem:isDirectory")

\* deleteItem: await fs.rmdir(itemPath, { recursive: true }) or
\* await fs.unlink(itemPath), then the result
DeleteRemove(i) ==
    /\ i \in DOMAIN tasks
    /\ tasks[i].op = "deleteItem" /\ tasks[i].pc = "remove"
    /\ LET path == tasks[i].path
           removes == IF tasks[i].isDir
                      THEN IsDirectoryEntry(fs.entries, path)
                              \/ (fs.rimraf /\ IsFileEntry(fs.entries, path))
                      ELSE IsFileEntry(fs.entries, path)
           silent == tasks[i].isDir /\ fs.rimraf /\ ~Exists(fs.entries, path)
       IN FileStep(i, Return(tasks[i], IF removes \/ silent THEN Success
                                       ELSE Failure("delete failed")),  \* '删除失败'
                   IF removes THEN removeEntry(fs.entries, path) ELSE fs.entries,
                   "deleteItem:remove")

NextFiles ==
    \/ FileRequestArrives
    \/ WriteFileHandler
    \/ \E i \in 1..MaxFileCalls : CreateCheckPermissions(i)
    \/ \E i \in 1..MaxFileCalls : CreateCheckFileExists(i)
    \/ \E i \in 1..MaxFileCalls : CreateWriteFile(i)
    \/ \E i \in 1..MaxFileCalls : DeleteCheckFileExists(i)
    \/ \E i \in 1..MaxFileCalls : DeleteCheckPermissions(i)
    \/ \E i \in 1..MaxFileCalls : DeleteIsDirectory(i)
    \/ \E i \in 1..MaxFileCalls : DeleteRemove(i)

SpecFiles == InitFiles /\ [][NextFiles]_vars

\* the step is a step of a createFile (deleteItem) call
C23_StepOf(op) ==
    IF last'.slot \in DOMAIN tasks THEN tasks[last'.slot].op = op /\ tasks' # tasks
    ELSE FALSE
C23_Fails(call) == call.pc = "done" => ~call.result.success
\* a step createFile takes while an entry exists at its path changes no entry
\* and no content, and the call does not succeed by it
C23_CreateOnExisting ==
    (C23_StepOf("createFile") /\ Exists(fs.entries, tasks[last'.slot].path))
       => fs' = fs /\ C23_Fails(tasks'[last'.slot])
\* a step deleteItem takes while no entry exists at its path changes nothing,
\* and the call does not succeed by it
C23_DeleteOnAbsent ==
    (C23_StepOf("deleteItem") /\ ~Exists(fs.entries, tasks[last'.slot].path))
       => fs' = fs /\ C23_Fails(tasks'[last'.slot])
----------------------------------------------------------------------------
\* The service specification (services/fileTreeService): calls of
\* readDirectory, createNode, deleteNode and renameNode.  A call that goes to
\* the gateway has three steps: the call up to its await, the answer of the
\* main process (the file system is read or changed there), and the
\* continuation in the renderer (cache, notifications, return).  The steps of
\* the calls in flight interleave.  tasks[i] is the i-th call; raced tells that
\* a readDirectory with useCache of the entry's directory was in flight when
\* the main process made the change.

\* calls started in one behaviour of the service specification
MaxServiceCalls == 3
\* calls started in one behaviour of the read specification
MaxReadCalls == 2
\* advances of the clock in one behaviour of the service specification
MaxServiceTicks == 2

ServiceRequests ==
    {[op |-> "readDirectory", path |-> P, useCache |-> TRUE, name |-> "",
      noParent |-> FALSE],
     [op |-> "readDirectory", path |-> P, useCache |-> FALSE, name |-> "", noParent |-> FALSE],
     [op |-> "readDirectory", path |-> PD, useCache |-> TRUE, name |-> "", noParent |-> FALSE],
     [op |-> "createNode", path |-> P, useCache |-> FALSE, name |-> "g", noParent |-> FALSE],
     [op |-> "deleteNode", path |-> P, useCache |-> FALSE, name |-> "", noParent |-> FALSE],
     [op |-> "renameNode", path |-> P, useCache |-> FALSE, name |-> "a", noParent |-> FALSE]}

ServiceCallOf(request) ==
    [op |-> request.op, path |-> request.path, useCache |-> request.useCache,
     name |-> request.name, noParent |-> request.noParent,
     pc |-> "gateway", ok |-> FALSE, failed |-> FALSE,
     items |-> <<>>, result |-> <<>>, gatewayCalls |-> 0, raced |-> FALSE]

\* the node argument of deleteNode and renameNode: a node as readDirectory
\* builds it, or one without the optional parent field
NodeOfCall(call) ==
    IF call.noParent THEN [BatchNode(call.path) EXCEPT !.parent = NoId]
    ELSE BatchNode(call.path)

\* the directory whose listing the request changes
ChangedDirectory(call) ==
    IF call.op = "createNode" THEN call.path ELSE parentPathOf(call.path)
\* the path the request removes (deleteNode, renameNode)
RemovedPath(call) == call.path

\* the main process can answer the request with success
ServiceCanAnswer(files, call) ==
    CASE call.op = "readDirectory" -> CanRead(files, call.path)
      [] call.op = "createNode" -> CanCreate(files, call.path, call.name)
      [] call.op = "deleteNode" -> CanDelete(files, call.path)
      [] call.op = "renameNode" ->
            CanRename(files, call.path, renamedPath(BatchNode(call.path), call.name))
\* the file system after the request has succeeded
serviceAnswer(files, call) ==
    CASE call.op = "readDirectory" -> files
      [] call.op = "createNode" -> gatewayCreate(files, call.path, call.name)
      [] call.op = "deleteNode" -> gatewayDelete(files, call.path)
      [] call.op = "renameNode" ->
            gatewayRename(files, call.path, renamedPath(BatchNode(call.path), call.name))

\* a faulty variant: a successful createNode clears the whole cache
cacheAfterCall_ClearsAll(c, call, t) ==
    CASE ~call.ok -> c
      [] call.op = "readDirectory" /\ call.ok ->
            IF call.useCache
            THEN setCachedNodes(c, call.path,
                                readDirectoryNodes(call.path, call.items, config), t)
            ELSE c
      [] call.op = "createNode" /\ call.ok -> clearAllCache
      [] call.op = "deleteNode" /\ call.ok -> cacheAfterDelete(c, NodeOfCall(call))
      [] call.op = "renameNode" /\ call.ok ->
            cacheAfterRename(c, NodeOfCall(call), call.name)
\* the cache after the continuation of a call the gateway has answered
cacheAfterCall(c, call, t) ==
    CASE ~call.ok -> c
      [] call.op = "readDirectory" /\ call.ok ->
            IF call.useCache
            THEN setCachedNodes(c, call.path,
                                readDirectoryNodes(call.path, call.items, config), t)
            ELSE c
      [] call.op = "createNode" /\ call.ok -> clearCache(c, call.path)
      [] call.op = "deleteNode" /\ call.ok -> cacheAfterDelete(c, NodeOfCall(call))
      [] call.op = "renameNode" /\ call.ok ->
            cacheAfterRename(c, NodeOfCall(call), call.name)
\* what the call returns: the nodes read, the node created or renamed
resultOfCall(call, t) ==
    CASE ~call.ok -> <<>>
      [] call.op = "readDirectory" /\ call.ok ->
            readDirectoryNodes(call.path, call.items, config)
      [] call.op = "createNode" /\ call.ok ->
            <<createdNode(call.path, call.name, "file", t)>>
      [] call.op = "deleteNode" /\ call.ok -> <<>>
      [] call.op = "renameNode" /\ call.ok ->
            <<renamedNode(BatchNode(call.path), call.name, t)>>
noteOfCall(call) ==
    CASE call.op = "readDirectory" -> {}
      [] call.op = "createNode" ->
            {IF call.ok THEN <<"success", "created">> ELSE <<"error", "create file">>}
      [] call.op = "deleteNode" ->
            {IF call.ok THEN <<"success", "deleted">> ELSE <<"error", "delete file">>}
      [] call.op = "renameNode" ->
            {IF call.ok THEN <<"success", "renamed">> ELSE <<"error", "rename file">>}

InitService ==
    /\ nodes = initialState.nodes
    /\ rootPaths = initialState.rootPaths
    /\ selectedNodes = initialState.selectedNodes
    /\ expandedNodes = initialState.expandedNodes
    /\ loadingNodes = initialState.loadingNodes
    /\ searchQuery = initialState.searchQuery
    /\ filteredNodes = initialState.filteredNodes
    /\ config = initialState.config
    /\ cache = <<>> /\ cacheExpiry = <<>> /\ now = 0
    /\ fs = HookFiles
    /\ notifications = {}
    /\ tasks = <<>>
    /\ steps = 0
    /\ last = [op |-> "init", kind |-> "", path |-> <<>>, slot |-> 0]

\* the call up to its first await: readDirectory looks into the cache when
\* useCache is set and returns what it finds; createNode and renameNode
\* validate the name
ServiceCall(maxCalls, requests) ==
    \E request \in requests :
        LET call == ServiceCallOf(request)
            slot == Len(tasks) + 1
            isRead == request.op = "readDirectory"
            c1 == IF isRead THEN cacheAfterLookup(Cache, request.useCache, now)
                  ELSE Cache
            hit == isRead /\ cacheHit(Cache, request.path, request.useCache, now)
            invalid == /\ request.op \in {"createNode", "renameNode"}
                       /\ ~validateFileName(Chars(request.name))
        IN /\ steps < maxCalls
           /\ steps' = steps + 1
           /\ SetCache(c1)
           /\ tasks' = Append(tasks,
                 IF hit THEN [call EXCEPT !.pc = "done", !.result = c1.cache[request.path]]
                 ELSE IF invalid THEN [call EXCEPT !.pc = "done"]
                 ELSE call)
           /\ notifications' = IF invalid
                               THEN notifications \cup {<<"error", "invalid file name">>}
                               ELSE notifications
           /\ last' = [op |-> request.op,
                       kind |-> IF hit THEN "hit" ELSE IF invalid THEN "invalid" ELSE "call",
                       path |-> request.path, slot |-> slot]
           /\ UNCHANGED <<storeVars, now, fs>>

\* the main process answers: fileExists, getFileInfo and readDirectory of a
\* read give the listing of that moment; create, delete and rename change the
\* file system; any of them can fail
ServiceGateway(i) ==
    \E ok \in BOOLEAN :
        LET call == tasks[i]
            raced == \E j \in DOMAIN tasks :
                        /\ tasks[j].op = "readDirectory" /\ tasks[j].useCache
                        /\ tasks[j].pc # "done"
                        /\ tasks[j].path = ChangedDirectory(call)
        IN /\ i \in DOMAIN tasks
           /\ call.pc = "gateway"
           /\ ok => ServiceCanAnswer(fs, call)
           /\ fs' = IF ok THEN serviceAnswer(fs, call) ELSE fs
           /\ tasks' = [tasks EXCEPT ![i] =
                 [call EXCEPT !.pc = "continue", !.ok = ok,
                    !.gatewayCalls = @ + 1,
                    !.items = IF ok /\ call.op = "readDirectory"
                              THEN readDirectoryItems(fs, call.path) ELSE <<>>,
                    !.raced = ok /\ call.op # "readDirectory" /\ raced]]
           /\ last' = [op |-> call.op, kind |-> "gateway", path |-> call.path, slot |-> i]
           /\ UNCHANGED <<storeVars, cache, cacheExpiry, now, notifications, steps>>

\* the continuation after the await: readDirectory builds the nodes and caches
\* them when useCache is set, or throws; createNode, deleteNode and renameNode
\* clear cache entries, notify and return
ServiceContinue(i) ==
    LET call == tasks[i]
    IN /\ i \in DOMAIN tasks
       /\ call.pc = "continue"
       /\ SetCache(cacheAfterCall(Cache, call, now))
       /\ tasks' = [tasks EXCEPT ![i] =
             [call EXCEPT !.pc = "done", !.failed = ~call.ok,
                          !.result = resultOfCall(call, now)]]
       /\ notifications' = notifications \cup noteOfCall(call)
       /\ last' = [op |-> call.op, kind |-> IF call.ok THEN "ok" ELSE "failed",
                   path |-> call.path, slot |-> i]
       /\ UNCHANGED <<storeVars, now, fs, steps>>

\* time passes: to the expiry time of what was cached at 0, then past it
ServiceTick ==
    /\ now < CACHE_DURATION + MaxServiceTicks - 1
    /\ now' = IF now = 0 THEN CACHE_DURATION ELSE now + 1
    /\ last' = [op |-> "tick", kind |-> "", path |-> <<>>, slot |-> 0]
    /\ UNCHANGED <<storeVars, cache, cacheExpiry, fs, notifications, tasks, steps>>

NextService ==
    \/ ServiceCall(MaxServiceCalls, ServiceRequests)
    \/ \E i \in 1..MaxServiceCalls : ServiceGateway(i)
    \/ \E i \in 1..MaxServiceCalls : ServiceContinue(i)
    \/ ServiceTick

SpecService == InitService /\ [][NextService]_vars

\* the read specification: the calls of readDirectory, and deleteNode, after
\* which the directory is not there
ReadRequests == {r \in ServiceRequests : r.op \in {"readDirectory", "deleteNode"}}
NextRead ==
    \/ ServiceCall(MaxReadCalls, ReadRequests)
    \/ \E i \in 1..MaxReadCalls : ServiceGateway(i)
    \/ \E i \in 1..MaxReadCalls : ServiceContinue(i)
    \/ ServiceTick

SpecRead == InitService /\ [][NextRead]_vars

----------------------------------------------------------------------------
\* Claims about the service

\* the nodes a read of the directory gives now
C24_Listing(path) == readDirectoryNodes(path, readDirectoryItems(fs, path), config)
\* a create, delete or rename of an entry of the directory has returned with
\* success, and the main process made the change while a readDirectory of the
\* directory with useCache was in flight
C24_ChangedDuringRead(path) ==
    \E j \in DOMAIN tasks :
        /\ tasks[j].op \in {"createNode", "deleteNode", "renameNode"}
        /\ tasks[j].pc = "done" /\ tasks[j].ok /\ tasks[j].raced
        /\ ChangedDirectory(tasks[j]) = path
\* no create, delete or rename of an entry of the directory is in flight
C24_Quiet(path) ==
    \A j \in DOMAIN tasks :
        (tasks[j].op # "readDirectory" /\ ChangedDirectory(tasks[j]) = path)
           => tasks[j].pc = "done"
\* C24: when a create, delete or rename of an entry of directory P has
\* succeeded while a readDirectory(P, useCache) was in flight, every later
\* cache hit for P gives the listing with the change, not the one read before
C24_CacheCoherence ==
    [][(/\ last'.op = "readDirectory" /\ last'.kind = "hit"
        /\ C24_ChangedDuringRead(last'.path)
        /\ C24_Quiet(last'.path)
        /\ last'.path \in fs)
       => tasks'[last'.slot].result = C24_Listing(last'.path)]_vars

\* C30: once deleteNode or renameNode of a directory D has succeeded, the
\* cache holds no entry keyed by a path below the old D, so that no later
\* readDirectory of such a path returns what was cached before
C30_NoEntryBelowRemoved ==
    [][(/\ last'.op \in {"deleteNode", "renameNode"} /\ last'.kind = "ok"
        /\ IsDir(last'.path))
       => \A k \in DOMAIN cache' :
             now <= cacheExpiry'[k] => ~Under(k, RemovedPath(tasks'[last'.slot]))]_vars

\* the step is a step of a readDirectory call
C29_ReadStep == last'.op = "readDirectory"
\* C29: readDirectory with useCache and an entry of the path that has not
\* expired returns the cached nodes in the step of the call, without a gateway
\* call; without useCache no step of it reads or changes the cache; when the
\* read fails the call fails and no cache entry is written
C29_ReadDirectory ==
    [][C29_ReadStep =>
        LET call == tasks'[last'.slot]
            path == last'.path
        IN /\ (/\ last'.kind \in {"call", "hit"} /\ call.useCache
               /\ path \in DOMAIN cache /\ now <= cacheExpiry[path])
              => /\ call.pc = "done" /\ ~call.failed
                 /\ call.result = cache[path]
                 /\ call.gatewayCalls = 0 /\ fs' = fs
           /\ ~call.useCache
              => /\ cache' = cache /\ cacheExpiry' = cacheExpiry
                 /\ last'.kind # "hit"
                 /\ last'.kind = "ok"
                       => call.result = readDirectoryNodes(path, call.items, config)
           /\ (last'.kind = "gateway" /\ ~CanRead(fs, path)) => ~call.ok
           /\ (call.pc = "done" /\ call.gatewayCalls > 0 /\ ~call.ok)
              => /\ call.failed /\ call.result = <<>>
                 /\ cache' = cache /\ cacheExpiry' = cacheExpiry]_vars
\* a call with useCache has returned, at the expiry time of the entry and
\* without a gateway call, the nodes an earlier call had read and cached
C29_Witness ==
    /\ last.op = "readDirectory" /\ last.kind = "hit" /\ now = CACHE_DURATION
    /\ tasks[last.slot].result # <<>> /\ tasks[last.slot].gatewayCalls = 0
    /\ \E i \in DOMAIN tasks :
          /\ tasks[i].op = "readDirectory" /\ tasks[i].useCache
          /\ tasks[i].gatewayCalls = 1 /\ tasks[i].result = tasks[last.slot].result

----------------------------------------------------------------------------
\* Claims about the loading set

\* the node a load in flight is for
C25_NodeOf(task) ==
    IF task.kind = "expandNode" THEN task.id ELSE generateNodeId(task.path)
\* C25: while a loadDirectory or an expandNode is in flight for a node of the
\* table, the id of the node is in the loading set, up to the end of the last
\* of the loads in flight for it
C25_LoadingWhileInFlight ==
    \A slot \in DOMAIN tasks :
        (/\ tasks[slot].kind \in LoadKinds /\ tasks[slot].pc = "gateway"
         /\ Has(nodes, C25_NodeOf(tasks[slot])))
           => Contains(loadingNodes, C25_NodeOf(tasks[slot]))
\* the same for expandNode alone
C25_ExpandLoadingWhileInFlight ==
    \A slot \in DOMAIN tasks :
        (/\ tasks[slot].kind = "expandNode" /\ tasks[slot].pc = "gateway"
         /\ Has(nodes, C25_NodeOf(tasks[slot])))
           => Contains(loadingNodes, C25_NodeOf(tasks[slot]))

\* C26: expandNode called for a node whose id is in the loading set leaves
\* the store and the cache as they are and starts no read, so that no two
\* loads of one node are in flight together
C26_ExpandWhileLoading ==
    [][(/\ steps' = steps + 1
        /\ last'.op \in {"expandNode:start", "expandNode:done", "expandNode:return"}
        /\ Contains(loadingNodes, last'.id))
       => /\ UNCHANGED <<storeVars, cache, cacheExpiry, tasks>>
          /\ \A a, b \in DOMAIN tasks' :
                (/\ a # b /\ tasks'[a].pc = "gateway" /\ tasks'[b].pc = "gateway"
                 /\ tasks'[a].kind = "expandNode" /\ tasks'[b].kind = "expandNode")
                   => tasks'[a].id # tasks'[b].id]_vars

----------------------------------------------------------------------------
\* Claims about child lists and the filtered ids

\* the fields of a node other than its own child list
C27_SameFields(a, b) ==
    \A f \in DOMAIN a \ {"children", "hasChildren"} : a[f] = b[f]
\* every entry of a child list is in the table with the same field values
\* and with the owner of the list as parent, and every node of the table
\* whose parent is in the table is in the child list of the parent
C27_Agree(table) ==
    \A id \in DOMAIN table :
        /\ \A i \in 1..Len(table[id].children) :
              LET child == table[id].children[i]
              IN /\ Has(table, child.id)
                 /\ C27_SameFields(table[child.id], child)
                 /\ child.parent = id
        /\ \A c \in DOMAIN table :
              table[c].parent = id
                 => \E i \in 1..Len(table[id].children) : table[id].children[i].id = c
\* C27: the child lists and the table agree; removeNode and the watch events
\* keep them in agreement
C27_ChildListsAgree ==
    [][(/\ C27_Agree(nodes)
        /\ last'.op \in {"removeNode", "handleFileWatchEvent"})
       => C27_Agree(nodes')]_vars

\* the filtered ids hold exactly the ids of the nodes of the table whose name
\* holds the query, and none for the empty query
C28_Consistent(table, query, filtered) ==
    Range(filtered)
      = IF query = "" THEN {}
        ELSE {id \in DOMAIN table : C16_NameHolds(table[id].name, query)}
\* C28: the filtered ids are consistent with the stored query and the table,
\* also after an addNode or a setNodes that follows setSearchQuery
C28_FilteredIdsConsistent ==
    [][(/\ C28_Consistent(nodes, searchQuery, filteredNodes)
        /\ searchQuery # ""
        /\ last'.op \in {"addNode", "setNodes"})
       => C28_Consistent(nodes', searchQuery', filteredNodes')]_vars

----------------------------------------------------------------------------
\* The create specification: createNode among reads that fill the cache

\* calls started in one behaviour of the create specification
MaxCreateCalls == 3

CreateRequests ==
    {r \in ServiceRequests :
        r.op = "createNode" \/ (r.op = "readDirectory" /\ r.useCache)}
NextCreate ==
    \/ ServiceCall(MaxCreateCalls, CreateRequests)
    \/ \E i \in 1..MaxCreateCalls : ServiceGateway(i)
    \/ \E i \in 1..MaxCreateCalls : ServiceContinue(i)

SpecCreate == InitService /\ [][NextCreate]_vars

\* C31: no step of createNode changes the store; the step in which a
\* successful createNode returns leaves no cache entry for parentPath and
\* every other entry as it was, and returns the node with id(parentPath/name)
\* and parent id(parentPath); when the gateway create has failed the call
\* returns nothing and the cache is unchanged
C31_CreateNode ==
    [][(last'.op = "createNode") =>
        LET call == tasks'[last'.slot]
            parentPath == last'.path
        IN /\ storeVars' = storeVars
           /\ last'.kind = "ok"
              => /\ parentPath \notin DOMAIN cache'
                 /\ parentPath \notin DOMAIN cacheExpiry'
                 /\ DOMAIN cache' = DOMAIN cache \ {parentPath}
                 /\ DOMAIN cacheExpiry' = DOMAIN cacheExpiry \ {parentPath}
                 /\ \A k \in DOMAIN cache' :
                       cache'[k] = cache[k] /\ cacheExpiry'[k] = cacheExpiry[k]
                 /\ Len(call.result) = 1
                 /\ call.result[1].id = generateNodeId(parentPath \o <<call.name>>)
                 /\ call.result[1].parent = generateNodeId(parentPath)
                 /\ call.result[1].name = call.name
           /\ last'.kind \in {"failed", "gateway"}
              => /\ call.result = <<>>
                 /\ cache' = cache /\ cacheExpiry' = cacheExpiry]_vars
\* a successful createNode in P has returned after reads had cached the
\* listings of P and of P/D: the entry of P/D is still there
C31_Witness ==
    /\ last.op = "createNode" /\ last.kind = "ok" /\ last.path = P
    /\ PD \in DOMAIN cache
    /\ \E j \in DOMAIN tasks :
          /\ j < last.slot /\ tasks[j].op = "readDirectory" /\ tasks[j].path = P
          /\ tasks[j].pc = "done" /\ tasks[j].ok /\ tasks[j].gatewayCalls = 1

----------------------------------------------------------------------------
\* The delete specification: deleteNode of a directory node, with and without
\* the parent field, among reads that fill the cache

\* calls started in one behaviour of the delete specification
MaxDeleteCalls == 3

DeleteRequests ==
    {r \in ServiceRequests : r.op = "readDirectory" /\ r.useCache}
      \cup {[op |-> "deleteNode", path |-> PD, useCache |-> FALSE, name |-> "",
             noParent |-> noParent] : noParent \in BOOLEAN}
NextDelete ==
    \/ ServiceCall(MaxDeleteCalls, DeleteRequests)
    \/ \E i \in 1..MaxDeleteCalls : ServiceGateway(i)
    \/ \E i \in 1..MaxDeleteCalls : ServiceContinue(i)

SpecDelete == InitService /\ [][NextDelete]_vars

\* C32: the step in which deleteNode returns after a successful gateway
\* delete returns true and leaves no cache entry for the node's path and
\* none for the path of its parent directory, also for a node without the
\* parent field; after a failed gateway delete it returns false, reports the
\* error and leaves the cache unchanged
C32_DeleteNode ==
    [][(last'.op = "deleteNode" /\ last'.kind \in {"ok", "failed"}) =>
        LET call == tasks'[last'.slot]
        IN /\ last'.kind = "ok"
              => /\ ~call.failed
                 /\ call.path \notin DOMAIN cache'
                 /\ parentPathOf(call.path) \notin DOMAIN cache'
           /\ last'.kind = "failed"
              => /\ call.failed
                 /\ <<"error", "delete file">> \in notifications'
                 /\ cache' = cache /\ cacheExpiry' = cacheExpiry]_vars

----------------------------------------------------------------------------
\* Claims about the watch events

CreatedEvents ==
    {Event("created", p, UndefPath, TRUE) : p \in {PF, PG, PD, PDF, WindowsFile}}
WatchCreated ==
    \E event \in CreatedEvents :
        StoreStep(handleFileWatchEvent(Store, event),
                  Op("handleFileWatchEvent", "created", EventNodeId(event),
                     event.path, Has(nodes, EventNodeId(event))))
NextWatch ==
    \/ SetNodes
    \/ WatchCreated

SpecWatch == InitStore /\ [][NextWatch]_vars

\* C34: a 'created' event with stats puts under id(path) a node with the kind
\* and size of the stats and, for a path with '/', the id of the parent path
\* as parent; the same event applied again leaves the table and the root
\* paths as the first application left them
C34_CreatedTwice ==
    [][(last'.op = "handleFileWatchEvent" /\ last'.kind = "created")
       => LET path == last'.path
              nodeId == generateNodeId(path)
          IN /\ Has(nodes', nodeId)
             /\ nodes'[nodeId].path = path
             /\ nodes'[nodeId].type
                   = IF Last(path) \in DirNames THEN "directory" ELSE "file"
             /\ nodes'[nodeId].size = Event("created", path, UndefPath, TRUE).size
             /\ path # WindowsFile
                   => nodes'[nodeId].parent = generateNodeId(Front(path))
             /\ (/\ last.op = "handleFileWatchEvent" /\ last.kind = "created"
                 /\ last.path = path)
                => nodes' = nodes /\ rootPaths' = rootPaths]_vars

----------------------------------------------------------------------------
\* The load specification (fileTreeService.loadChildren): calls on file nodes
\* and on directory nodes, one of a directory that is not there.  A call on a
\* directory node is a readDirectory inside try/catch: the call up to the
\* await, the answer of the main process, the continuation.

\* calls started in one behaviour of the load specification
MaxLoadCalls == 3

\* a directory node whose directory the file system does not hold
GoneDirectory == BatchNode(<<"p", "a">>)
LoadRequests ==
    {[node |-> node, useCache |-> TRUE] :
        node \in {BatchNode(PF), BatchNode(P), GoneDirectory}}

LoadCallOf(request) ==
    [op |-> "loadChildren", node |-> request.node, path |-> request.node.path,
     useCache |-> request.useCache, pc |-> "gateway", ok |-> FALSE, threw |-> FALSE,
     items |-> <<>>, result |-> <<>>, gatewayCalls |-> 0]

\* a faulty variant: the catch block rethrows and does not notify
loadChildrenReturn_Rethrows(ok, children) ==
    [result |-> IF ok THEN children ELSE <<>>, threw |-> ~ok, note |-> {}]
\* what loadChildren returns after readDirectory has returned the children
\* (ok) or has thrown: the children, or [] with a notification
loadChildrenReturn(ok, children) ==
    [result |-> IF ok THEN children ELSE <<>>, threw |-> FALSE,
     note |-> IF ok THEN {} ELSE {<<"error", "load failed">>}]

\* the call up to its first await: a file node returns [] at once; a
\* directory node goes into readDirectory, which looks into the cache when
\* useCache is set
LoadChildrenCall ==
    \E request \in LoadRequests :
        LET call == LoadCallOf(request)
            slot == Len(tasks) + 1
            isFile == request.node.type # "directory"
            c1 == IF isFile THEN Cache
                  ELSE cacheAfterLookup(Cache, request.useCache, now)
            hit == ~isFile /\ cacheHit(Cache, call.path, request.useCache, now)
        IN /\ steps < MaxLoadCalls
           /\ steps' = steps + 1
           /\ SetCache(c1)
           /\ tasks' = Append(tasks,
                 IF isFile THEN [call EXCEPT !.pc = "done"]
                 ELSE IF hit
                 THEN [call EXCEPT !.pc = "done", !.ok = TRUE,
                                   !.result = c1.cache[call.path]]
                 ELSE call)
           /\ last' = [op |-> "loadChildren",
                       kind |-> IF isFile THEN "file" ELSE IF hit THEN "hit" ELSE "call",
                       path |-> call.path, slot |-> slot]
           /\ UNCHANGED <<storeVars, now, fs, notifications>>

\* the main process answers the read, or the read fails
LoadChildrenGateway(i) ==
    \E ok \in BOOLEAN :
        LET call == tasks[i]
        IN /\ i \in DOMAIN tasks
           /\ call.pc = "gateway"
           /\ ok => CanRead(fs, call.path)
           /\ tasks' = [tasks EXCEPT ![i] =
                 [call EXCEPT !.pc = "continue", !.ok = ok, !.gatewayCalls = @ + 1,
                    !.items = IF ok THEN readDirectoryItems(fs, call.path) ELSE <<>>]]
           /\ last' = [op |-> "loadChildren", kind |-> "gateway", path |-> call.path,
                       slot |-> i]
           /\ UNCHANGED <<storeVars, serviceVars, steps>>

\* the continuation: readDirectory builds the nodes and caches them when
\* useCache is set, or throws into the catch block of loadChildren
LoadChildrenContinue(i) ==
    LET call == tasks[i]
        children == readDirectoryNodes(call.path, call.items, config)
        return == loadChildrenReturn(call.ok, children)
    IN /\ i \in DOMAIN tasks
       /\ call.pc = "continue"
       /\ SetCache(IF call.ok /\ call.useCache
                   THEN setCachedNodes(Cache, call.path, children, now)
                   ELSE Cache)
       /\ tasks' = [tasks EXCEPT ![i] =
             [call EXCEPT !.pc = "done", !.threw = return.threw,
                          !.result = return.result]]
       /\ notifications' = notifications \cup return.note
       /\ last' = [op |-> "loadChildren", kind |-> IF call.ok THEN "ok" ELSE "failed",
                   path |-> call.path, slot |-> i]
       /\ UNCHANGED <<storeVars, now, fs, steps>>

NextLoad ==
    \/ LoadChildrenCall
    \/ \E i \in 1..MaxLoadCalls : LoadChildrenGateway(i)
    \/ \E i \in 1..MaxLoadCalls : LoadChildrenContinue(i)
    \/ ServiceTick

SpecLoad == InitService /\ [][NextLoad]_vars

\* C35: loadChildren on a file node returns [] in the step of the call, with
\* no gateway call and the cache as it was; on a directory node whose read has
\* failed it notifies the error, returns [] and throws nothing
C35_LoadChildren ==
    [][(last'.op = "loadChildren") =>
        LET call == tasks'[last'.slot]
        IN /\ call.node.type # "directory"
              => /\ last'.kind = "file"
                 /\ call.pc = "done" /\ call.result = <<>> /\ ~call.threw
                 /\ call.gatewayCalls = 0
                 /\ cache' = cache /\ cacheExpiry' = cacheExpiry
                 /\ fs' = fs /\ notifications' = notifications
           /\ last'.kind = "failed"
              => /\ <<"error", "load failed">> \in notifications'
                 /\ call.pc = "done" /\ call.result = <<>> /\ ~call.threw
                 /\ cache' = cache /\ cacheExpiry' = cacheExpiry]_vars
\* a call on a file node has returned while an entry of the cache had
\* expired, and the read of a call on the directory that is not there has
\* failed
C35_Witness ==
    /\ last.op = "loadChildren" /\ last.kind = "failed"
    /\ tasks[last.slot].node = GoneDirectory
    /\ \E j \in DOMAIN tasks :
          /\ tasks[j].node.type = "file" /\ tasks[j].pc = "done"
    /\ \E k \in DOMAIN cacheExpiry : cacheExpiry[k] < now

----------------------------------------------------------------------------
\* Claims about the results of the batch and of removeNode

\* the error FileService.deleteItem answers with when it does not succeed: the
\* entry is not there, or the permission check or the removal has failed
deleteItemError(files, path) ==
    IF path \notin files THEN "not found" ELSE "permission denied"

\* C36: the entry deleteMultipleNodes adds to failed carries the reason the
\* gateway gave for the failure of the delete of that node
C36_FailedCarriesReason ==
    [][(/\ last'.op = "deleteNode:gateway" /\ last'.kind = "failed"
        /\ Len(tasks'[0].failed) = Len(tasks[0].failed) + 1)
       => LET entry == tasks'[0].failed[Len(tasks'[0].failed)]
          IN /\ entry.node.path = last'.path
             /\ entry.error = deleteItemError(fs, last'.path)]_vars

\* C37: after removeNode(id) the selected, expanded and loading ids hold no
\* id the call has removed from the table, also none of a descendant of id
C37_NoRemovedIdLeft ==
    [][(last'.op = "removeNode")
       => \A x \in DOMAIN nodes \ DOMAIN nodes' :
             /\ ~Contains(selectedNodes', x)
             /\ ~Contains(expandedNodes', x)
             /\ ~Contains(loadingNodes', x)]_vars

----------------------------------------------------------------------------
\* The expand specification: the loads of the hook (loadDirectory, expandNode)
\* and the watch events, and the same under the condition that every gateway
\* call in flight returns or fails

NextExpand ==
    \/ LoadDirectoryStart
    \/ LoadDirectoryDone
    \/ ExpandNodeStart
    \/ ExpandNodeDone
    \/ WatchEventArrives

SpecExpand == InitHook /\ [][NextExpand]_vars

\* a gateway call of an expandNode in flight returns or fails, and so does one
\* of a loadDirectory in flight: with the calls of a behaviour bounded, every
\* call in flight gets its answer
SpecExpandFair ==
    /\ SpecExpand
    /\ WF_vars(ExpandNodeDone)
    /\ WF_vars(LoadDirectoryDone)

\* no loadDirectory and no expandNode is in flight
C38_NoLoadInFlight ==
    \A slot \in Slots : tasks[slot].kind \in LoadKinds => tasks[slot].pc = "done"
\* an expandNode is in flight
C38_ExpandInFlight ==
    \E slot \in Slots : tasks[slot].kind = "expandNode" /\ tasks[slot].pc = "gateway"
\* C38: every expandNode call in flight finishes (no call stays in flight for
\* ever: at every time there is a later time with none in flight); the step
\* in which it finishes, after a success, a failure or the removal of the
\* node, leaves the id of the node out of the loading set; and when no load is
\* in flight the loading set is empty
C38_ExpandFinishes ==
    /\ []<>(~C38_ExpandInFlight)
    /\ [][(last'.op = "expandNode:done") => ~Contains(loadingNodes', last'.id)]_vars
    /\ [](C38_NoLoadInFlight => loadingNodes = <<>>)
\* an expandNode has finished after its read failed, and the node had been
\* removed from the table while the read was in flight
C38_Witness ==
    /\ last.op = "expandNode:done" /\ last.kind = "failed" /\ ~last.present
    /\ C38_NoLoadInFlight

----------------------------------------------------------------------------
\* The race specification (main/services/fileService): createFile calls and
\* renameItem calls that target one path, their awaits interleaved.  No call of
\* it removes the target, so that a call which starts after a successful one
\* finds the entry.

\* calls started in one behaviour of the race specification
MaxRaceCalls == 3

\* path is the path the call creates: fullPath of createFile, newPath of
\* renameItem
RaceRequests ==
    {[op |-> "createFile", parentPath |-> P, path |-> PG, oldPath |-> <<>>],
     [op |-> "renameItem", parentPath |-> P, path |-> PG, oldPath |-> PF]}
RaceCall(request) ==
    [op |-> request.op, parentPath |-> request.parentPath, path |-> request.path,
     oldPath |-> request.oldPath,
     pc |-> IF request.op = "createFile" THEN "checkPermissions" ELSE "checkSource",
     isDir |-> FALSE, result |-> NoResult]

\* fs.rename(oldPath, newPath) can succeed: it replaces a file at newPath
CanRenameEntry(entries, oldPath, newPath) ==
    /\ Exists(entries, oldPath)
    /\ Exists(entries, Front(newPath))
    /\ ~IsDirectoryEntry(entries, newPath)
renameEntry(entries, oldPath, newPath) ==
    [q \in (DOMAIN entries \ {oldPath}) \cup {newPath} |->
        IF q = newPath THEN entries[oldPath] ELSE entries[q]]

RaceRequestArrives ==
    \E request \in RaceRequests :
        /\ steps < MaxRaceCalls
        /\ steps' = steps + 1
        /\ tasks' = Append(tasks, RaceCall(request))
        /\ last' = [op |-> request.op, slot |-> Len(tasks) + 1]
        /\ UNCHANGED <<storeVars, serviceVars>>

\* renameItem: await checkFileExists(oldPath)
RenameCheckSource(i) ==
    /\ i \in DOMAIN tasks
    /\ tasks[i].op = "renameItem" /\ tasks[i].pc = "checkSource"
    /\ FileStep(i, IF checkFileExists(fs.entries, tasks[i].oldPath)
                   THEN [tasks[i] EXCEPT !.pc = "checkTarget"]
                   ELSE Return(tasks[i], Failure("no source")),      \* '源文件不存在'
                fs.entries, "renameItem:checkSource")

\* renameItem: await checkFileExists(newPath)
RenameCheckTarget(i) ==
    /\ i \in DOMAIN tasks
    /\ tasks[i].op = "renameItem" /\ tasks[i].pc = "checkTarget"
    /\ FileStep(i, IF checkFileExists(fs.entries, tasks[i].path)
                   THEN Return(tasks[i], Failure("target exists"))   \* '目标文件已存在'
                   ELSE [tasks[i] EXCEPT !.pc = "checkPermissions"],
                fs.entries, "renameItem:checkTarget")

\* renameItem: await checkPermissions(oldPath, 'write'), then
\* await checkPermissions(targetDir, 'write')
RenameCheckPermissions(i) ==
    /\ i \in DOMAIN tasks
    /\ tasks[i].op = "renameItem"
    /\ tasks[i].pc \in {"checkPermissions", "checkTargetPermissions"}
    /\ LET source == tasks[i].pc = "checkPermissions"
           checked == IF source THEN tasks[i].oldPath ELSE Front(tasks[i].path)
       IN FileStep(i, IF checkWritePermission(fs.entries, checked)
                      THEN [tasks[i] EXCEPT !.pc = IF source THEN "checkTargetPermissions"
                                                   ELSE "rename"]
                      ELSE Return(tasks[i], Failure("no write permission")),
                   fs.entries, "renameItem:checkPermissions")

\* renameItem: await fs.rename(oldPath, newPath), then the result
RenameRename(i) ==
    /\ i \in DOMAIN tasks
    /\ tasks[i].op = "renameItem" /\ tasks[i].pc = "rename"
    /\ IF CanRenameEntry(fs.entries, tasks[i].oldPath, tasks[i].path)
       THEN FileStep(i, Return(tasks[i], Success),
                     renameEntry(fs.entries, tasks[i].oldPath, tasks[i].path),
                     "renameItem:rename")
       ELSE FileStep(i, Return(tasks[i], Failure("rename failed")),  \* '重命名失败'
                     fs.entries, "renameItem:rename")

NextRace ==
    \/ RaceRequestArrives
    \/ \E i \in 1..MaxRaceCalls : CreateCheckPermissions(i)
    \/ \E i \in 1..MaxRaceCalls : CreateCheckFileExists(i)
    \/ \E i \in 1..MaxRaceCalls : CreateWriteFile(i)
    \/ \E i \in 1..MaxRaceCalls : RenameCheckSource(i)
    \/ \E i \in 1..MaxRaceCalls : RenameCheckTarget(i)
    \/ \E i \in 1..MaxRaceCalls : RenameCheckPermissions(i)
    \/ \E i \in 1..MaxRaceCalls : RenameRename(i)

SpecRace == InitFiles /\ [][NextRace]_vars

\* the call has returned success
C39_Succeeded(call) == call.pc = "done" /\ call.result.success
\* of the createFile calls for one path at most one has returned success
C39_OneCreates ==
    \A i, j \in DOMAIN tasks' :
        (/\ i # j /\ tasks'[i].op = "createFile" /\ tasks'[j].op = "createFile"
         /\ tasks'[i].path = tasks'[j].path)
           => ~(C39_Succeeded(tasks'[i]) /\ C39_Succeeded(tasks'[j]))
\* no step replaces the entry a call that has returned success has created
\* or renamed
C39_NoneOverwritten ==
    \A q \in DOMAIN fs.entries \cap DOMAIN fs'.entries :
        (\E j \in DOMAIN tasks : C39_Succeeded(tasks[j]) /\ tasks[j].path = q)
           => fs'.entries[q] = fs.entries[q]
\* C39: of the createFile calls for one path that run together at most one
\* returns success, and of a createFile and a renameItem to one path that run
\* together none that returns success has its entry replaced by the other
C39_CreateRace ==
    [][C39_OneCreates /\ C39_NoneOverwritten]_vars

====
